---- MODULE Spec2Model ----
\* Verification model of SimplyPrint/nfc-agent:
\*   * the Proxmark3 persistent executor (internal/proxmark3/persistent.go)
\*   * the WebSocket session subscription state (internal/api, WSClient)
EXTENDS Integers, Sequences, FiniteSets, TLC

\* ---------------------------------------------------------------------------
\* Bounds
\* ---------------------------------------------------------------------------
MaxCalls == 2      \* calls made to the executor in one run, each by a goroutine of its own

MaxSubs  == 3      \* subscribe requests handled by the session in one run
MaxTicks == 4      \* poll ticks completed in one run

NumSessions == 2   \* streaming sessions that connect to the hub in one run
QueueCap    == 1   \* model capacity of a session's outbound queue (256 in the program)
MaxBcasts   == QueueCap + 1   \* payloads handed to the broadcast channel in one run

MaxConns == 2      \* connections the demux listener accepts in one run
MaxLen   == 2      \* bytes a client sends on one connection; also the longest read buffer

MaxEntries == 3    \* largest capacity a log ring is created with
MaxLogs    == 3    \* calls of Logger.Log in one run
MaxReaders == 1    \* readers the enumeration can return
MaxReplies == 1    \* replies enqueued for one session in one run
MaxBudget  == 7    \* longest command budget, in units of 100 ms
MaxLines   == 2    \* lines the child prints during one collection
MaxOutLines == 2   \* lines of output one command produces
MaxChecks  == 5    \* calls of IsConnected in one run
MaxNames   == 3    \* reader names PC/SC lists
MaxTail    == 1    \* characters of a URI after its scheme prefix
MaxRecords == 2    \* records of an NDEF message
MaxPollerCalls == 7   \* start, stop and elapsed intervals of one CardPoller

Procs    == 1..MaxCalls
ChildIds == 1..MaxCalls     \* every call spawns at most one persistent child
None     == 0               \* nil pointer / nil channel
Closed   == -1              \* a stdin pipe whose descriptors were closed
RDY      == 0               \* tag of the "Communicating with PM3" banner line

VARIABLES
    p,          \* the PersistentClient struct fields
    alive,      \* alive[k]: persistent child k is a live OS process
    childIn,    \* childIn[k]: what child k still has to answer (banner, then commands)
    lineBuf,    \* lines buffered in the channel p.lines refers to
    lineClosed, \* that channel has been closed
    readers,    \* children whose readLines goroutine is still running
    monitors,   \* children that have a monitorProcess goroutine blocked in Wait()
    shotAlive,  \* callers whose one-shot (-c) child process is alive
    pc,         \* position of each calling goroutine
    deferred,   \* the call has registered Execute's deferred busy=false block
    output,     \* tags of the lines the call has accumulated in readUntilDone
    shots,      \* one-shot invocations made by the current call
    calls,      \* calls made so far
    crashed,    \* the process panicked (nil stdin, or a bad channel operation)
    timerAct,   \* "stop" when the last step was the idle callback shutting the child down
    requested   \* monitored children that stopLocked has shut down (Stop or idle stop)

pm3vars == <<p, alive, childIn, lineBuf, lineClosed, readers, monitors, shotAlive, pc, deferred,
             output, shots, calls, crashed, timerAct, requested>>

VARIABLES
    subscribed,   \* WSClient.subscribed   map[string]bool
    pollTickers,  \* WSClient.pollTickers  map[string]*time.Ticker
    lastUIDs,     \* WSClient.lastUIDs     map[string]string
    tkReader,     \* reader each ticker created so far polls
    tkRunning,    \* ticker has not been stopped
    polling,      \* tickers whose loop has an identify call in flight
    cardAt,       \* UID of the card physically on each reader ("" : none)
    hist,         \* outcomes of the ticks completed in the current subscription
    evs,          \* events emitted in the current subscription
    lastReq,      \* last request the session handled for each reader
    seenBefore,   \* UID stored for the reader when it was last unsubscribed
    ticks,        \* poll ticks completed so far
    closed,       \* the session's connection has been closed
    atClose,      \* tickers whose loop had an identify call in flight at close
    issueOrder,   \* loops with an identify call in flight, earliest issued first
    overtaken     \* of these, the ones issued before a tick that has enqueued an event

hubvars == <<subscribed, pollTickers, lastUIDs, tkReader, tkRunning, polling,
             cardAt, hist, evs, lastReq, seenBefore, ticks, closed, atClose,
             issueOrder, overtaken>>

VARIABLES
    clients,      \* WSHub.clients: the registered sessions
    sendq,        \* WSClient.send of each session: its outbound queue
    sendOpen,     \* that channel has not been closed
    life,         \* "new", "live" (register sent), "left" (unregister sent)
    bcastCh,      \* payloads handed to WSHub.broadcast and not yet fanned out
    handed,       \* payloads handed to the broadcast channel so far
    hubOp         \* what the hub's loop processed in the last step

bcvars == <<clients, sendq, sendOpen, life, bcastCh, handed, hubOp>>

VARIABLES
    conns,        \* the connections accepted so far: each socket and its peekConn wrapper
    lnOpen,       \* the underlying listener has not been closed
    lastRet       \* what the last call of MuxListener.Accept returned

muxvars == <<conns, lnOpen, lastRet>>

VARIABLES
    lg,           \* the Logger: entries, maxSize, head, count, minLevel
    accepted,     \* the entries Log has stored since the last Clear, oldest first
    logCalls,     \* calls of Log so far
    lastLog,      \* level passed to Log in the last step (NoLevel if it was no Log call)
    snap          \* what GetEntries returned in the last step, if it was called

logvars == <<lg, accepted, logCalls, lastLog, snap>>

VARIABLES
    wsReaders,    \* number of readers the enumeration returns at present
    wsOut,        \* ids of the replies enqueued on each session's outbound queue
    wsLast        \* the last request handled: its session, the message, the reply

reqvars == <<wsReaders, wsOut, wsLast>>

VARIABLES
    rdPc,         \* where readUntilDoneWithSilence is: idle, top, wait, done
    rdNow,        \* the clock
    rdDeadline,   \* deadline := time.Now().Add(timeout)
    rdSilence,    \* silenceTimeout
    rdWaitFrom,   \* when the pending readLineWithTimeout started its timer
    rdLines,      \* the channel p.lines
    rdClosed,     \* p.lines has been closed
    rdEmitted,    \* lines the child has printed
    rdBuf,        \* output (bytes.Buffer)
    rdGot,        \* gotOutput
    rdRet,        \* what the call returned
    rdQuiet,      \* when the last line was received (or the call began)
    rdSeen,       \* the lines received
    rdSpins,      \* silence timeouts that passed before any output
    rdOld,        \* for each line in the channel: it was printed before the command was written
    rdStale,      \* the buffer holds a line printed before the command was written
    rdExec        \* what Execute did with the result: none, return, fallback

rdvars == <<rdPc, rdNow, rdDeadline, rdSilence, rdWaitFrom, rdLines, rdClosed, rdEmitted,
            rdBuf, rdGot, rdRet, rdQuiet, rdSeen, rdSpins, rdOld, rdStale, rdExec>>

VARIABLES
    clsOp,        \* the operation that ran last
    clsOut,       \* the output it collected
    clsErr        \* the error it returned

clsvars == <<clsOp, clsOut, clsErr>>

VARIABLES
    icKind,       \* which executor: Client or PersistentClient
    icBusy,       \* its busy flag
    icRunning,    \* PersistentClient.running
    icPc,         \* where IsConnected is: idle, probe, probing, done
    icSaw,        \* busy and running as IsConnected read them
    icSent,       \* commands the current call of IsConnected has sent
    icRet,        \* what IsConnected returned
    icCalls,      \* calls of IsConnected so far
    icProbe       \* how the probe of the current call ended: none, ok, failed

icvars == <<icKind, icBusy, icRunning, icPc, icSaw, icSent, icRet, icCalls, icProbe>>

VARIABLES
    lrCall,       \* the last call of ListReaders: what PC/SC answered
    lrRet         \* the slice it returned

lrvars == <<lrCall, lrRet>>

VARIABLES
    uriOp         \* the last URI operation: its kind, URI, prefix code, remainder

urivars == <<uriOp>>

VARIABLES
    ndefRecs,     \* the records of the last message encoded
    ndefBytes     \* the bytes the encoder produced for them

ndefvars == <<ndefRecs, ndefBytes>>

VARIABLES
    cp,           \* the CardPoller: running, interval timers set, readCard calls made
    cpWanted,     \* the last of start() and stop() called was start()
    cpSince,      \* at the start() that followed a stop(): reads made before; intervals since
    cpCalls       \* calls and elapsed intervals so far

cpvars == <<cp, cpWanted, cpSince, cpCalls>>

vars == <<pm3vars, hubvars, bcvars, muxvars, logvars, reqvars, rdvars, clsvars, icvars, lrvars, urivars, ndefvars, cpvars>>

\* What the actions of one component leave alone.
nonPm3vars == <<hubvars, bcvars, muxvars, logvars, reqvars, rdvars, clsvars, icvars, lrvars, urivars, ndefvars, cpvars>>
nonHubvars == <<pm3vars, bcvars, muxvars, logvars, reqvars, rdvars, clsvars, icvars, lrvars, urivars, ndefvars, cpvars>>
nonBcvars  == <<pm3vars, hubvars, muxvars, logvars, reqvars, rdvars, clsvars, icvars, lrvars, urivars, ndefvars, cpvars>>
nonMuxvars == <<pm3vars, hubvars, bcvars, logvars, reqvars, rdvars, clsvars, icvars, lrvars, urivars, ndefvars, cpvars>>
nonLogvars == <<pm3vars, hubvars, bcvars, muxvars, reqvars, rdvars, clsvars, icvars, lrvars, urivars, ndefvars, cpvars>>
nonReqvars == <<pm3vars, hubvars, bcvars, muxvars, logvars, rdvars, clsvars, icvars, lrvars, urivars, ndefvars, cpvars>>
nonRdvars == <<pm3vars, hubvars, bcvars, muxvars, logvars, reqvars, clsvars, icvars, lrvars, urivars, ndefvars, cpvars>>
nonClsvars == <<pm3vars, hubvars, bcvars, muxvars, logvars, reqvars, rdvars, icvars, lrvars, urivars, ndefvars, cpvars>>
nonIcvars == <<pm3vars, hubvars, bcvars, muxvars, logvars, reqvars, rdvars, clsvars, lrvars, urivars, ndefvars, cpvars>>
nonLrvars == <<pm3vars, hubvars, bcvars, muxvars, logvars, reqvars, rdvars, clsvars, icvars, urivars, ndefvars, cpvars>>
nonUrivars == <<pm3vars, hubvars, bcvars, muxvars, logvars, reqvars, rdvars, clsvars, icvars, lrvars, ndefvars, cpvars>>
nonNdefvars == <<pm3vars, hubvars, bcvars, muxvars, logvars, reqvars, rdvars, clsvars, icvars, lrvars, urivars, cpvars>>
nonCpvars == <<pm3vars, hubvars, bcvars, muxvars, logvars, reqvars, rdvars, clsvars, icvars, lrvars, urivars, ndefvars>>

\* ---------------------------------------------------------------------------
\* PersistentClient: locked helpers.  A helper takes and returns the pair
\* [p |-> struct, alive |-> process table].
\* ---------------------------------------------------------------------------
St(pp, al) == [p |-> pp, alive |-> al]

\* NewPersistentClient: nothing is started until the first Start/Execute.
NewPersistentClient ==
    [running |-> FALSE, busy |-> FALSE, cmd |-> None, stdin |-> None,
     lines |-> None, shutdownCh |-> "nil", idleTimer |-> "off"]

\* cmd.Process.Kill() / process exit: the OS process is gone.
reap(al, k) == IF k # None THEN [al EXCEPT ![k] = FALSE] ELSE al

\* killLocked that kills the process but leaves the running flag set.
killLockedKeepsRunning(s) ==
    [p     |-> s.p,
     alive |-> reap(s.alive, s.p.cmd)]

\* func (p *PersistentClient) killLocked()
killLocked(s) ==
    [p     |-> [s.p EXCEPT !.running = FALSE],
     alive |-> reap(s.alive, s.p.cmd)]

\* func (p *PersistentClient) resetIdleTimerLocked(): Stop the old timer, arm a new one.
resetIdleTimerLocked(s) ==
    [s EXCEPT !.p.idleTimer = "armed"]

\* func (p *PersistentClient) stopLocked(): quit + close stdin, wait up to 3 s,
\* force-kill otherwise; in both branches the child is gone afterwards.
stopLocked(s) ==
    IF ~s.p.running THEN s
    ELSE [p     |-> [s.p EXCEPT !.idleTimer = "off", !.shutdownCh = "nil",
                                !.stdin = None, !.running = FALSE,
                                !.cmd = None, !.lines = None],
          alive |-> reap(s.alive, s.p.cmd)]

\* IsBusy()
IsBusy == p.busy

\* Execute's deferred block: busy = false; lastUsed = now; resetIdleTimerLocked().
deferBlock(s) ==
    resetIdleTimerLocked([s EXCEPT !.p.busy = FALSE])

\* ---------------------------------------------------------------------------
\* Initial state of the executor
\* ---------------------------------------------------------------------------
InitPm3 ==
    /\ p = NewPersistentClient
    /\ alive = [k \in ChildIds |-> FALSE]
    /\ childIn = [k \in ChildIds |-> <<>>]
    /\ lineBuf = <<>>
    /\ lineClosed = FALSE
    /\ readers = {}
    /\ monitors = {}
    /\ shotAlive = {}
    /\ pc = [c \in Procs |-> "idle"]
    /\ deferred = [c \in Procs |-> FALSE]
    /\ output = [c \in Procs |-> {}]
    /\ shots = [c \in Procs |-> 0]
    /\ calls = 0
    /\ crashed = FALSE
    /\ timerAct = "none"
    /\ requested = {}

\* An unrecovered panic in any goroutine ends the agent process: the executor
\* and all its goroutines are gone.
Panic ==
    /\ crashed' = TRUE
    /\ p' = NewPersistentClient
    /\ alive' = [k \in ChildIds |-> FALSE]
    /\ childIn' = [k \in ChildIds |-> <<>>]
    /\ lineBuf' = <<>>
    /\ lineClosed' = FALSE
    /\ readers' = {}
    /\ monitors' = {}
    /\ shotAlive' = {}
    /\ pc' = [c \in Procs |-> "idle"]
    /\ deferred' = [c \in Procs |-> FALSE]
    /\ output' = [c \in Procs |-> {}]
    /\ shots' = [c \in Procs |-> 0]
    /\ calls' = MaxCalls
    /\ timerAct' = "none"
    /\ requested' = {}

\* The persistent child a call spawns is named after the call: a call runs
\* startLocked at most once.
NewId(c) == c

\* ---------------------------------------------------------------------------
\* startLocked, first half (under p.mu): exec.Command, pipes, cmd.Start().
\* spawnOk  : child spawned, running = true, new lines channel; the lock is then
\*            released for waitForReady.
\* spawnFail: StdinPipe failed (stdin stays nil) or cmd.Start failed (the pipe
\*            descriptors are closed); p.cmd has no Process.
\* ---------------------------------------------------------------------------
\* A spawn that sets the fields but starts no process.
spawnOkNoProcess(s, k) ==
    [p     |-> [s.p EXCEPT !.cmd = k, !.stdin = k, !.running = TRUE,
                           !.shutdownCh = "open", !.lines = k],
     alive |-> s.alive]

spawnOk(s, k) ==
    [p     |-> [s.p EXCEPT !.cmd = k, !.stdin = k, !.running = TRUE,
                           !.shutdownCh = "open", !.lines = k],
     alive |-> [s.alive EXCEPT ![k] = TRUE]]

spawnFail(s, pipeErr) ==
    [s EXCEPT !.p.cmd = None, !.p.stdin = IF pipeErr THEN None ELSE Closed]

\* startLocked, second half after a successful waitForReady (lock re-taken):
\* resetIdleTimerLocked(); go monitorProcess().
startedLocked(s) == resetIdleTimerLocked(s)

\* Calls carry no identity: they are numbered in the order in which they enter
\* the executor.  pc[c] is "idle" before call c is made and "done" after it
\* has returned.
NextCall(c) == c = calls + 1

\* Begin of a call that finds the executor not running: spawn attempt.
\* onOk / onErr: where the caller continues.
BeginSpawn(c, onOk, onErr) ==
    /\ ~p.running
    /\ \/ /\ p' = spawnOk(St(p, alive), NewId(c)).p
          /\ alive' = spawnOk(St(p, alive), NewId(c)).alive
          /\ childIn' = [childIn EXCEPT ![NewId(c)] = <<RDY>>]
          /\ lineBuf' = <<>>
          /\ lineClosed' = FALSE
          /\ readers' = readers \cup {NewId(c)}
          /\ pc' = [pc EXCEPT ![c] = onOk]
       \/ /\ \E pipeErr \in BOOLEAN : p' = spawnFail(St(p, alive), pipeErr).p
          /\ UNCHANGED <<alive, childIn, lineBuf, lineClosed, readers>>
          /\ pc' = [pc EXCEPT ![c] = onErr]
    /\ deferred' = [deferred EXCEPT ![c] = FALSE]

\* Execute / ExecuteFast, entry (p.mu.Lock() ... p.busy = true; p.mu.Unlock()).
\* The two functions differ only in the silence interval of readUntilDone.
Execute(c) ==
    /\ ~crashed
    /\ pc[c] = "idle" /\ calls < MaxCalls /\ NextCall(c)
    /\ UNCHANGED nonPm3vars
    /\ calls' = calls + 1
    /\ \/ /\ p.running
          /\ p' = [p EXCEPT !.busy = TRUE]
          /\ pc' = [pc EXCEPT ![c] = "write"]
          /\ deferred' = [deferred EXCEPT ![c] = TRUE]
          /\ UNCHANGED <<alive, childIn, lineBuf, lineClosed, readers>>
       \/ BeginSpawn(c, "ready", "shot")
    /\ timerAct' = "none"
    /\ UNCHANGED <<monitors, shotAlive, output, shots, crashed, requested>>

\* Start(): startLocked under the lock.
Start(c) ==
    /\ ~crashed
    /\ pc[c] = "idle" /\ calls < MaxCalls /\ NextCall(c)
    /\ UNCHANGED nonPm3vars
    /\ calls' = calls + 1
    /\ \/ /\ p.running
          /\ pc' = [pc EXCEPT ![c] = "done"]
          /\ UNCHANGED <<p, deferred, alive, childIn, lineBuf, lineClosed, readers>>
       \/ BeginSpawn(c, "sready", "done")
    /\ timerAct' = "none"
    /\ UNCHANGED <<monitors, shotAlive, output, shots, crashed, requested>>

\* waitForReady reads one line that is not the ready banner and discards it.
WaitReadySkip(c) ==
    /\ ~crashed
    /\ pc[c] \in {"ready", "sready"}
    /\ UNCHANGED nonPm3vars
    /\ p.lines # None /\ lineBuf # <<>> /\ Head(lineBuf) # RDY
    /\ lineBuf' = Tail(lineBuf)
    /\ timerAct' = "none"
    /\ UNCHANGED <<lineClosed, readers, p, alive, childIn, monitors, shotAlive, pc, deferred,
                   output, shots, calls, crashed, requested>>

\* waitForReady matched readyRegex; startLocked finishes (idle timer, monitor
\* goroutine on the current p.cmd); Execute then sets busy, Start returns.
WaitReadyOk(c) ==
    /\ ~crashed
    /\ pc[c] \in {"ready", "sready"}
    /\ UNCHANGED nonPm3vars
    /\ p.lines # None /\ lineBuf # <<>> /\ Head(lineBuf) = RDY
    /\ lineBuf' = Tail(lineBuf)
    /\ monitors' = IF p.cmd # None THEN monitors \cup {p.cmd} ELSE monitors
    /\ IF pc[c] = "ready"
         THEN /\ p' = [startedLocked(St(p, alive)).p EXCEPT !.busy = TRUE]
              /\ pc' = [pc EXCEPT ![c] = "write"]
              /\ deferred' = [deferred EXCEPT ![c] = TRUE]
         ELSE /\ p' = startedLocked(St(p, alive)).p
              /\ pc' = [pc EXCEPT ![c] = "done"]
              /\ deferred' = deferred
    /\ timerAct' = "none"
    /\ UNCHANGED <<lineClosed, readers, alive, childIn, shotAlive, output, shots, calls, crashed, requested>>

\* waitForReady failed (startup budget exceeded, EOF on the lines channel, or an
\* error line): killLocked(); Execute falls back to single-shot, Start returns the error.
WaitReadyFail(c) ==
    /\ ~crashed
    /\ pc[c] \in {"ready", "sready"}
    /\ UNCHANGED nonPm3vars
    /\ p' = killLocked(St(p, alive)).p
    /\ alive' = killLocked(St(p, alive)).alive
    /\ childIn' = [k \in ChildIds |-> IF alive'[k] THEN childIn[k] ELSE <<>>]
    /\ pc' = [pc EXCEPT ![c] = IF pc[c] = "ready" THEN "shot" ELSE "done"]
    /\ timerAct' = "none"
    /\ UNCHANGED <<lineClosed, readers, lineBuf, monitors, shotAlive, deferred, output,
                   shots, calls, crashed, requested>>

\* A write to the stdin pipe fails when its descriptors are closed or the child
\* holding the read end is gone.
PipeBroken(w) == IF w = Closed THEN TRUE ELSE ~alive[w]

\* fmt.Fprintf(p.stdin, "%s\n", command), outside the lock.
\*   stdin is nil     -> nil-interface method call, the process panics
\*   pipe is broken   -> error: killLocked(), executeSingleShot
\*   otherwise        -> the command reaches the child
Write(c) ==
    /\ ~crashed
    /\ pc[c] = "write"
    /\ UNCHANGED nonPm3vars
    /\ IF p.stdin = None
         THEN Panic
         ELSE /\ IF PipeBroken(p.stdin)
                   THEN /\ p' = killLocked(St(p, alive)).p
                        /\ alive' = killLocked(St(p, alive)).alive
                        /\ childIn' = [k \in ChildIds |-> IF alive'[k] THEN childIn[k] ELSE <<>>]
                        /\ pc' = [pc EXCEPT ![c] = "shot"]
                   ELSE /\ childIn' = [childIn EXCEPT ![p.stdin] = Append(@, c)]
                        /\ pc' = [pc EXCEPT ![c] = "read"]
                        /\ UNCHANGED <<p, alive>>
              /\ timerAct' = "none"
              /\ UNCHANGED <<lineClosed, readers, lineBuf, monitors, shotAlive, deferred,
                             output, shots, calls, crashed, requested>>

\* readUntilDone: one line received from p.lines and accumulated.
ReadLine(c) ==
    /\ ~crashed
    /\ pc[c] = "read"
    /\ UNCHANGED nonPm3vars
    /\ p.lines # None /\ lineBuf # <<>>
    /\ output' = [output EXCEPT ![c] = @ \cup {Head(lineBuf)}]
    /\ lineBuf' = Tail(lineBuf)
    /\ timerAct' = "none"
    /\ UNCHANGED <<lineClosed, readers, p, alive, childIn, monitors, shotAlive, pc, deferred,
                   shots, calls, crashed, requested>>

\* readUntilDone returns nil error: output followed by silence (or the deadline
\* with output in hand).  Execute returns; the deferred block runs.
ReadDone(c) ==
    /\ ~crashed
    /\ pc[c] = "read"
    /\ UNCHANGED nonPm3vars
    /\ output[c] # {}
    /\ p' = deferBlock(St(p, alive)).p
    /\ pc' = [pc EXCEPT ![c] = "done"]
    /\ deferred' = [deferred EXCEPT ![c] = FALSE]
    /\ output' = [output EXCEPT ![c] = {}]
    /\ timerAct' = "none"
    /\ UNCHANGED <<lineClosed, readers, alive, childIn, lineBuf, monitors, shotAlive, shots, calls, crashed, requested>>

\* readLineWithTimeout returns io.EOF: the channel is closed and drained.
\* readLines() closes it when the child's stdout ends.
LinesEOF == p.lines # None /\ lineBuf = <<>> /\ lineClosed

\* readUntilDone returns an error: deadline without any output, or EOF on the
\* closed lines channel.  killLocked(), then executeSingleShot.
ReadFail(c) ==
    /\ ~crashed
    /\ pc[c] = "read"
    /\ UNCHANGED nonPm3vars
    /\ (output[c] = {} \/ LinesEOF)
    /\ p' = killLocked(St(p, alive)).p
    /\ alive' = killLocked(St(p, alive)).alive
    /\ childIn' = [k \in ChildIds |-> IF alive'[k] THEN childIn[k] ELSE <<>>]
    /\ pc' = [pc EXCEPT ![c] = "shot"]
    /\ output' = [output EXCEPT ![c] = {}]
    /\ timerAct' = "none"
    /\ UNCHANGED <<lineClosed, readers, lineBuf, monitors, shotAlive, deferred, shots, calls, crashed, requested>>

\* executeSingleShot: after the 500 ms sleep, exec.CommandContext(... "-c", command).Run()
SingleShotRun(c) ==
    /\ ~crashed
    /\ pc[c] = "shot"
    /\ UNCHANGED nonPm3vars
    /\ shotAlive' = shotAlive \cup {c}
    /\ shots' = [shots EXCEPT ![c] = @ + 1]
    /\ pc' = [pc EXCEPT ![c] = "shotrun"]
    /\ timerAct' = "none"
    /\ UNCHANGED <<lineClosed, readers, p, alive, childIn, lineBuf, monitors, deferred, output,
                   calls, crashed, requested>>

\* cmd.Run() returned; executeSingleShot's result is Execute's result; the
\* deferred block runs if the call had registered it.
SingleShotDone(c) ==
    /\ ~crashed
    /\ pc[c] = "shotrun"
    /\ UNCHANGED nonPm3vars
    /\ shotAlive' = shotAlive \ {c}
    /\ p' = IF deferred[c] THEN deferBlock(St(p, alive)).p ELSE p
    /\ deferred' = [deferred EXCEPT ![c] = FALSE]
    /\ shots' = [shots EXCEPT ![c] = 0]
    /\ pc' = [pc EXCEPT ![c] = "done"]
    /\ timerAct' = "none"
    /\ UNCHANGED <<lineClosed, readers, alive, childIn, lineBuf, monitors, output, calls, crashed, requested>>

\* The child answers what it was sent: the banner first, then one line per command.
\* readLines() of child k forwards the line with `p.lines <- line`.  The field is
\* read without the lock: the send goes to the channel made for child k (ch = k)
\* or to whatever channel the field holds by now (ch = p.lines).
\*   that channel is no longer p.lines -> nobody receives the line
\*   nil channel                        -> the goroutine blocks for ever
\*   closed channel                     -> panic (send on closed channel)
ChildRespond(k) ==
    /\ ~crashed
    /\ alive[k] /\ k \in readers /\ childIn[k] # <<>>
    /\ UNCHANGED nonPm3vars
    /\ \E ch \in {k, p.lines} :
         IF ch # None /\ ch = p.lines /\ lineClosed
           THEN Panic
           ELSE /\ childIn' = [childIn EXCEPT ![k] = Tail(@)]
                /\ readers' = IF ch = None THEN readers \ {k} ELSE readers
                /\ lineBuf' = IF ch # None /\ ch = p.lines
                                THEN Append(lineBuf, Head(childIn[k])) ELSE lineBuf
                /\ timerAct' = "none"
                /\ UNCHANGED <<p, alive, lineClosed, monitors, shotAlive, pc, deferred,
                               output, shots, calls, crashed, requested>>

\* readLines() of child k sees the end of the child's stdout and runs
\* close(p.lines), again reading the field without the lock.
\*   nil channel     -> panic (close of nil channel)
\*   closed channel  -> panic (close of closed channel)
ReaderEOF(k) ==
    /\ ~crashed
    /\ k \in readers /\ ~alive[k]
    /\ UNCHANGED nonPm3vars
    /\ \E ch \in {k, p.lines} :
         IF ch = None \/ (ch = p.lines /\ lineClosed)
           THEN Panic
           ELSE /\ readers' = readers \ {k}
                /\ lineClosed' = IF ch = p.lines THEN TRUE ELSE lineClosed
                /\ timerAct' = "none"
                /\ UNCHANGED <<p, alive, childIn, lineBuf, monitors, shotAlive, pc,
                               deferred, output, shots, calls, crashed, requested>>

\* The child dies on its own (crash, device unplugged).
ChildExit(k) ==
    /\ ~crashed
    /\ alive[k]
    /\ UNCHANGED nonPm3vars
    /\ alive' = [alive EXCEPT ![k] = FALSE]
    /\ childIn' = [childIn EXCEPT ![k] = <<>>]
    /\ timerAct' = "none"
    /\ UNCHANGED <<lineClosed, readers, p, lineBuf, monitors, shotAlive, pc, deferred,
                   output, shots, calls, crashed, requested>>

\* monitorProcess: cmd.Wait() returned for child k; under the lock, unless the
\* shutdown channel is closed, an executor that is running is marked stopped.
\* (stopLocked sets shutdownCh to nil right after closing it, and a nil channel
\* is never ready in the select.)
monitorProcess(s) ==
    IF s.p.shutdownCh = "closed" THEN s
    ELSE IF s.p.running THEN [s EXCEPT !.p.running = FALSE] ELSE s

\* monitorProcess raises the warning "Proxmark3 subprocess exited unexpectedly".
monitorWarns(s) == s.p.shutdownCh # "closed" /\ s.p.running

MonitorExit(k) ==
    /\ ~crashed
    /\ k \in monitors /\ ~alive[k]
    /\ UNCHANGED nonPm3vars
    /\ monitors' = monitors \ {k}
    /\ requested' = requested \ {k}
    /\ p' = monitorProcess(St(p, alive)).p
    /\ timerAct' = "none"
    /\ UNCHANGED <<lineClosed, readers, alive, childIn, lineBuf, shotAlive, pc, deferred, output,
                   shots, calls, crashed>>

\* The time.AfterFunc callback installed by resetIdleTimerLocked.
idleExpired(s) ==
    IF s.p.busy THEN resetIdleTimerLocked(s)
    ELSE IF ~s.p.running THEN [s EXCEPT !.p.idleTimer = "off"]
    ELSE stopLocked(s)

IdleFire ==
    /\ ~crashed
    /\ p.idleTimer = "armed"
    /\ UNCHANGED nonPm3vars
    /\ p' = idleExpired(St(p, alive)).p
    /\ alive' = idleExpired(St(p, alive)).alive
    /\ childIn' = [k \in ChildIds |-> IF alive'[k] THEN childIn[k] ELSE <<>>]
    /\ lineBuf' = IF p'.lines = None THEN <<>> ELSE lineBuf
    /\ lineClosed' = IF p'.lines = None THEN FALSE ELSE lineClosed
    /\ timerAct' = IF ~p.busy /\ p.running THEN "stop" ELSE "none"
    /\ requested' = IF ~p.busy /\ p.running THEN requested \cup ({p.cmd} \cap monitors)
                                              ELSE requested
    /\ UNCHANGED <<readers, monitors, shotAlive, pc, deferred, output, shots, calls, crashed>>

\* Stop(): stopLocked under the lock.
Stop ==
    /\ ~crashed
    /\ p.running
    /\ UNCHANGED nonPm3vars
    /\ p' = stopLocked(St(p, alive)).p
    /\ alive' = stopLocked(St(p, alive)).alive
    /\ childIn' = [k \in ChildIds |-> IF alive'[k] THEN childIn[k] ELSE <<>>]
    /\ lineBuf' = <<>>
    /\ lineClosed' = FALSE
    /\ timerAct' = "none"
    /\ requested' = requested \cup ({p.cmd} \cap monitors)
    /\ UNCHANGED <<readers, monitors, shotAlive, pc, deferred, output, shots, calls, crashed>>

\* ===========================================================================
\* Subscription state of one streaming session (WSClient)
\* ===========================================================================
Readers   == {"r1"}                \* the maps are keyed by reader; no handler touches another key
UIDs      == {"A", "B"}
Absent    == "absent"              \* key not in the map
NoReader  == "none"                \* ticker slot not created yet
Tickers   == 1..MaxSubs
NoCard    == "no-card"
ErrOther  == "error"

\* Reading a Go map[string]string: a missing key reads as "".
MapGet(m, r) == IF m[r] = Absent THEN "" ELSE m[r]

Sess(sub, tk, uid, run) ==
    [subscribed |-> sub, pollTickers |-> tk, lastUIDs |-> uid, tkRunning |-> run]

\* A ticker.Stop() that was forgotten.
stopTickerForgotten(run, tk, r) == run

\* ticker.Stop() on the ticker installed for r, if any.
stopTicker(run, tk, r) == IF tk[r] # None THEN [run EXCEPT ![tk[r]] = FALSE] ELSE run

\* handleSubscribe without the reset of the last UID.
handleSubscribeKeepsUID(s, r, t) ==
    [subscribed  |-> [s.subscribed EXCEPT ![r] = TRUE],
     lastUIDs    |-> s.lastUIDs,
     pollTickers |-> [s.pollTickers EXCEPT ![r] = t],
     tkRunning   |-> [stopTicker(s.tkRunning, s.pollTickers, r) EXCEPT ![t] = TRUE]]

\* handleSubscribe that installs the new ticker without stopping the old one.
handleSubscribeNoStop(s, r, t) ==
    [subscribed  |-> [s.subscribed EXCEPT ![r] = TRUE],
     lastUIDs    |-> [s.lastUIDs EXCEPT ![r] = ""],
     pollTickers |-> [s.pollTickers EXCEPT ![r] = t],
     tkRunning   |-> [s.tkRunning EXCEPT ![t] = TRUE]]

\* handleSubscribe's locked section: stop the existing ticker, mark subscribed,
\* reset the last UID, install the new ticker t.
handleSubscribe(s, r, t) ==
    [subscribed  |-> [s.subscribed EXCEPT ![r] = TRUE],
     lastUIDs    |-> [s.lastUIDs EXCEPT ![r] = ""],
     pollTickers |-> [s.pollTickers EXCEPT ![r] = t],
     tkRunning   |-> [stopTicker(s.tkRunning, s.pollTickers, r) EXCEPT ![t] = TRUE]]

\* handleUnsubscribe without the delete of the last UID.
handleUnsubscribeKeepsUID(s, r) ==
    [subscribed  |-> [s.subscribed EXCEPT ![r] = FALSE],
     lastUIDs    |-> s.lastUIDs,
     pollTickers |-> [s.pollTickers EXCEPT ![r] = None],
     tkRunning   |-> stopTicker(s.tkRunning, s.pollTickers, r)]

\* handleUnsubscribe that stops the ticker but leaves its map entry.
handleUnsubscribeKeepsTicker(s, r) ==
    [subscribed  |-> [s.subscribed EXCEPT ![r] = FALSE],
     lastUIDs    |-> [s.lastUIDs EXCEPT ![r] = Absent],
     pollTickers |-> s.pollTickers,
     tkRunning   |-> stopTicker(s.tkRunning, s.pollTickers, r)]

\* handleUnsubscribe's locked section: mark not subscribed, stop and delete the
\* ticker, delete the last UID.
handleUnsubscribe(s, r) ==
    [subscribed  |-> [s.subscribed EXCEPT ![r] = FALSE],
     lastUIDs    |-> [s.lastUIDs EXCEPT ![r] = Absent],
     pollTickers |-> [s.pollTickers EXCEPT ![r] = None],
     tkRunning   |-> stopTicker(s.tkRunning, s.pollTickers, r)]

\* Session close: stop every ticker, release the session state.
RECURSIVE stopAll(_, _, _)
stopAll(run, tk, rs) ==
    IF rs = {} THEN run
    ELSE LET r == CHOOSE x \in rs : TRUE
         IN stopAll(stopTicker(run, tk, r), tk, rs \ {r})

handleClose(s) ==
    [subscribed  |-> [r \in Readers |-> FALSE],
     lastUIDs    |-> [r \in Readers |-> Absent],
     pollTickers |-> [r \in Readers |-> None],
     tkRunning   |-> stopAll(s.tkRunning, s.pollTickers, Readers)]

\* A driver loop that reports no-card like any other identify failure.
pollEventNoCardIsError(o, stored) ==
    IF o \in UIDs THEN (IF o # stored THEN <<"card", o>> ELSE <<>>)
    ELSE <<"error">>

\* One tick of the driver loop, given the identify outcome o and the stored UID:
\* the event to emit ("" : none) and the UID to store.
pollEvent(o, stored) ==
    IF o \in UIDs THEN (IF o # stored THEN <<"card", o>> ELSE <<>>)
    ELSE IF o = NoCard THEN (IF stored # "" THEN <<"removed">> ELSE <<>>)
    ELSE <<"error">>

\* A store that keeps the last UID when the loop returns no-card.
pollStoreKeepsUID(o, stored) ==
    IF o \in UIDs THEN o
    ELSE stored

pollStore(o, stored) ==
    IF o \in UIDs THEN o
    ELSE IF o = NoCard THEN ""
    ELSE stored

InitHub ==
    /\ subscribed = [r \in Readers |-> FALSE]
    /\ pollTickers = [r \in Readers |-> None]
    /\ lastUIDs = [r \in Readers |-> Absent]
    /\ tkReader = [t \in Tickers |-> NoReader]
    /\ tkRunning = [t \in Tickers |-> FALSE]
    /\ polling = {}
    /\ cardAt = [r \in Readers |-> ""]
    /\ hist = [r \in Readers |-> <<>>]
    /\ evs = [r \in Readers |-> <<>>]
    /\ lastReq = [r \in Readers |-> "none"]
    /\ seenBefore = [r \in Readers |-> ""]
    /\ ticks = 0
    /\ closed = FALSE
    /\ atClose = {}
    /\ issueOrder = <<>>
    /\ overtaken = {}

NextTicker == CHOOSE t \in Tickers : tkReader[t] = NoReader /\ \A u \in Tickers : tkReader[u] = NoReader => t <= u

\* subscribe request for reader r.
Subscribe(r) ==
    /\ ~closed
    /\ UNCHANGED nonHubvars
    /\ UNCHANGED <<closed, atClose>>
    /\ \E t \in Tickers : tkReader[t] = NoReader
    /\ LET n == handleSubscribe(Sess(subscribed, pollTickers, lastUIDs, tkRunning), r, NextTicker)
       IN /\ subscribed' = n.subscribed
          /\ pollTickers' = n.pollTickers
          /\ lastUIDs' = n.lastUIDs
          /\ tkRunning' = n.tkRunning
    /\ tkReader' = [tkReader EXCEPT ![NextTicker] = r]
    /\ hist' = [hist EXCEPT ![r] = <<>>]
    /\ evs' = [evs EXCEPT ![r] = <<>>]
    /\ lastReq' = [lastReq EXCEPT ![r] = IF subscribed[r] THEN "resubscribe" ELSE "subscribe"]
    /\ UNCHANGED <<polling, cardAt, seenBefore, ticks, issueOrder, overtaken>>

\* unsubscribe request for reader r.
Unsubscribe(r) ==
    /\ ~closed
    /\ UNCHANGED nonHubvars
    /\ UNCHANGED <<closed, atClose>>
    /\ LET n == handleUnsubscribe(Sess(subscribed, pollTickers, lastUIDs, tkRunning), r)
       IN /\ subscribed' = n.subscribed
          /\ pollTickers' = n.pollTickers
          /\ lastUIDs' = n.lastUIDs
          /\ tkRunning' = n.tkRunning
    /\ lastReq' = [lastReq EXCEPT ![r] = "unsubscribe"]
    /\ seenBefore' = [seenBefore EXCEPT ![r] = MapGet(lastUIDs, r)]
    /\ UNCHANGED <<tkReader, polling, cardAt, hist, evs, ticks, issueOrder, overtaken>>

\* The loops of reader r whose call in flight was issued before the one of loop t.
issuedBefore(t, r) ==
    {issueOrder[i] : i \in {j \in 1..Len(issueOrder) :
                               /\ tkReader[issueOrder[j]] = r
                               /\ \E k \in (j + 1)..Len(issueOrder) : issueOrder[k] = t}}

\* The ticker of loop t fires: the loop calls identify for its reader.
PollStart(t) ==
    /\ tkReader[t] # NoReader /\ tkRunning[t]
    /\ UNCHANGED nonHubvars
    /\ UNCHANGED <<closed, atClose>>
    /\ t \notin polling
    /\ ticks < MaxTicks
    /\ polling' = polling \cup {t}
    /\ issueOrder' = Append(issueOrder, t)
    /\ UNCHANGED <<subscribed, pollTickers, lastUIDs, tkReader, tkRunning, cardAt,
                   hist, evs, lastReq, seenBefore, ticks, overtaken>>

\* identify returned o for loop t: edge detection against the stored UID.
\* A loop whose ticker was stopped meanwhile emits nothing and stores nothing.
PollDone(t, o) ==
    /\ t \in polling
    /\ UNCHANGED nonHubvars
    /\ UNCHANGED <<closed, atClose>>
    /\ polling' = polling \ {t}
    /\ LET r == tkReader[t] IN
       IF tkRunning[t]
         THEN /\ lastUIDs' = [lastUIDs EXCEPT ![r] = pollStore(o, MapGet(lastUIDs, r))]
              /\ evs' = [evs EXCEPT ![r] =
                            IF pollEvent(o, MapGet(lastUIDs, r)) = <<>> THEN @
                            ELSE Append(@, pollEvent(o, MapGet(lastUIDs, r)))]
              /\ hist' = [hist EXCEPT ![r] = Append(@, o)]
              /\ ticks' = ticks + 1
              /\ overtaken' = IF pollEvent(o, MapGet(lastUIDs, r)) = <<>>
                                 THEN overtaken \ {t}
                                 ELSE (overtaken \cup issuedBefore(t, r)) \ {t}
         ELSE /\ UNCHANGED <<lastUIDs, evs, hist, ticks>>
              /\ overtaken' = overtaken \ {t}
    /\ issueOrder' = SelectSeq(issueOrder, LAMBDA u : u # t)
    /\ UNCHANGED <<subscribed, pollTickers, tkReader, tkRunning, cardAt, lastReq,
                   seenBefore>>

\* The connection of the session ends (peer gone, read error, server shutdown).
Close ==
    /\ ~closed
    /\ UNCHANGED nonHubvars
    /\ closed' = TRUE
    /\ atClose' = polling
    /\ LET n == handleClose(Sess(subscribed, pollTickers, lastUIDs, tkRunning))
       IN /\ subscribed' = n.subscribed
          /\ pollTickers' = n.pollTickers
          /\ lastUIDs' = n.lastUIDs
          /\ tkRunning' = n.tkRunning
    /\ UNCHANGED <<tkReader, polling, cardAt, hist, evs, lastReq, seenBefore, ticks,
                   issueOrder, overtaken>>

\* What identify can return for reader r: the card on it, no-card, or a
\* transport/reader error.
Identify(r) == {IF cardAt[r] = "" THEN NoCard ELSE cardAt[r], ErrOther}

Poll(t) ==
    /\ t \in polling
    /\ \E o \in Identify(tkReader[t]) : PollDone(t, o)

\* A card is put on, or taken off, a reader.
PlaceCard(r, u) ==
    /\ cardAt[r] # u
    /\ UNCHANGED nonHubvars
    /\ UNCHANGED <<closed, atClose>>
    /\ cardAt' = [cardAt EXCEPT ![r] = u]
    /\ UNCHANGED <<subscribed, pollTickers, lastUIDs, tkReader, tkRunning, polling,
                   hist, evs, lastReq, seenBefore, ticks, issueOrder, overtaken>>

NextHub ==
    \/ \E r \in Readers : Subscribe(r)
    \/ \E r \in Readers : Unsubscribe(r)
    \/ \E t \in Tickers : PollStart(t)
    \/ \E t \in Tickers : Poll(t)
    \/ \E r \in Readers, u \in UIDs \cup {""} : PlaceCard(r, u)
    \/ Close

\* ===========================================================================
\* The hub: client set, broadcast fan-out, bounded outbound queues (WSHub)
\* ===========================================================================
Sessions == 1..NumSessions
Payloads == 1..MaxBcasts      \* the payloads handed over are pairwise distinct

NoOp == <<"none", 0>>

Hub(cl, q, op) == [clients |-> cl, sendq |-> q, sendOpen |-> op]

\* NewWSHub(): empty client set, empty channels.
InitBc ==
    /\ clients = {}
    /\ sendq = [s \in Sessions |-> <<>>]
    /\ sendOpen = [s \in Sessions |-> TRUE]
    /\ life = [s \in Sessions |-> "new"]
    /\ bcastCh = <<>>
    /\ handed = 0
    /\ hubOp = NoOp

\* Severing a session: out of the client set, its outbound queue closed.
sever(h, s) ==
    [h EXCEPT !.clients = @ \ {s}, !.sendOpen = [@ EXCEPT ![s] = FALSE]]

\* An enqueue that drops the payload when the queue is full and keeps the session.
offerDropping(h, s, m) ==
    IF Len(h.sendq[s]) < QueueCap
      THEN [h EXCEPT !.sendq = [@ EXCEPT ![s] = Append(@, m)]]
      ELSE h

\* Non-blocking enqueue on the outbound queue of s: the payload is appended if
\* there is room, otherwise the session is severed.
offer(h, s, m) ==
    IF Len(h.sendq[s]) < QueueCap
      THEN [h EXCEPT !.sendq = [@ EXCEPT ![s] = Append(@, m)]]
      ELSE sever(h, s)

\* Fan-out of one payload to the sessions in rs.
RECURSIVE fanOut(_, _, _)
fanOut(h, rs, m) ==
    IF rs = {} THEN h
    ELSE LET s == CHOOSE x \in rs : TRUE
         IN fanOut(offer(h, s, m), rs \ {s}, m)

\* The hub processes a register without adding the session.
hubRegisterLost(h, s) == h

\* The hub processes `hub.register <- client`.
hubRegister(h, s) == [h EXCEPT !.clients = @ \cup {s}]

\* The hub processes `hub.unregister <- client`: a session still in the client
\* set is removed and its outbound queue closed.
hubUnregister(h, s) == IF s \in h.clients THEN sever(h, s) ELSE h

\* A session connects: its register reaches the hub.
Register(s) ==
    /\ life[s] = "new"
    /\ UNCHANGED nonBcvars
    /\ life' = [life EXCEPT ![s] = "live"]
    /\ LET n == hubRegister(Hub(clients, sendq, sendOpen), s)
       IN clients' = n.clients /\ sendq' = n.sendq /\ sendOpen' = n.sendOpen
    /\ hubOp' = <<"register", s>>
    /\ UNCHANGED <<bcastCh, handed>>

\* A session's connection ends: its unregister reaches the hub.
Unregister(s) ==
    /\ life[s] = "live"
    /\ UNCHANGED nonBcvars
    /\ life' = [life EXCEPT ![s] = "left"]
    /\ LET n == hubUnregister(Hub(clients, sendq, sendOpen), s)
       IN clients' = n.clients /\ sendq' = n.sendq /\ sendOpen' = n.sendOpen
    /\ hubOp' = <<"unregister", s>>
    /\ UNCHANGED <<bcastCh, handed>>

\* A producer (e.g. the log broadcaster) hands a payload to the broadcast channel.
Hand(b) ==
    /\ b = handed + 1
    /\ UNCHANGED nonBcvars
    /\ handed' = handed + 1
    /\ bcastCh' = Append(bcastCh, b)
    /\ hubOp' = NoOp
    /\ UNCHANGED <<clients, sendq, sendOpen, life>>

\* The hub takes one payload from the broadcast channel and fans it out.
HubBroadcast ==
    /\ bcastCh # <<>>
    /\ UNCHANGED nonBcvars
    /\ bcastCh' = Tail(bcastCh)
    /\ LET n == fanOut(Hub(clients, sendq, sendOpen), clients, Head(bcastCh))
       IN clients' = n.clients /\ sendq' = n.sendq /\ sendOpen' = n.sendOpen
    /\ hubOp' = <<"broadcast", Head(bcastCh)>>
    /\ UNCHANGED <<life, handed>>

\* The session's write loop takes the next payload from its outbound queue and
\* writes it to the connection.
Drain(s) ==
    /\ sendq[s] # <<>>
    /\ UNCHANGED nonBcvars
    /\ sendq' = [sendq EXCEPT ![s] = Tail(@)]
    /\ hubOp' = NoOp
    /\ UNCHANGED <<clients, sendOpen, life, bcastCh, handed>>

\* The session itself enqueues a response or an event for its peer.
EventMsg == 0

Emit(s) ==
    /\ life[s] = "live" /\ sendOpen[s]
    /\ UNCHANGED nonBcvars
    /\ LET n == offer(Hub(clients, sendq, sendOpen), s, EventMsg)
       IN clients' = n.clients /\ sendq' = n.sendq /\ sendOpen' = n.sendOpen
    /\ hubOp' = <<"emit", s>>
    /\ UNCHANGED <<life, bcastCh, handed>>

NextBc ==
    \/ \E s \in Sessions : Emit(s)
    \/ \E s \in Sessions : Register(s)
    \/ \E s \in Sessions : Unregister(s)
    \/ \E b \in Payloads : Hand(b)
    \/ HubBroadcast
    \/ \E s \in Sessions : Drain(s)

\* ===========================================================================
\* The protocol-demultiplexing listener (MuxListener, peekConn)
\* ===========================================================================
ConnIds      == 1..MaxConns
TLSHandshake == 22          \* 0x16, ContentType handshake
PlainByte    == 71          \* 'G', as in "GET / HTTP/1.1"
FirstBytes   == {TLSHandshake, PlainByte}
PeekErrs     == {"EOF", "timeout", "reset"}

\* The byte stream a client sends: a first byte b, then n - 1 further bytes, all
\* different from each other and from b.
Stream(b, n) == [i \in 1..n |-> IF i = 1 THEN b ELSE i]
Streams      == {Stream(b, n) : b \in FirstBytes, n \in 0..MaxLen}

\* error values: nil, a plain error, and tempError{err}
NilErr         == [err |-> "nil", Timeout |-> FALSE, Temporary |-> FALSE]
plainError(e)  == [err |-> e, Timeout |-> e = "timeout", Temporary |-> e = "timeout"]
tempErrorFatal(e) == [err |-> e, Timeout |-> FALSE, Temporary |-> FALSE]
tempError(e)   == [err |-> e, Timeout |-> FALSE, Temporary |-> TRUE]

\* what Accept returns: a connection ("tls", "plain") or none, and an error
Ret(k, e) == [conn |-> k, id |-> 0, error |-> e]

\* A connection not accepted yet.
NoConn ==
    [st |-> "none", stream |-> <<>>, pos |-> 0, deadline |-> FALSE,
     lcloses |-> 0, hcloses |-> 0,
     peeked |-> FALSE, first |-> 0, hasErr |-> FALSE, err |-> "nil",
     kind |-> "none", got |-> <<>>, eof |-> FALSE]

\* Connection c, accepted or not.
Conn(c) == IF c \in DOMAIN conns THEN conns[c] ELSE NoConn

InitMux ==
    /\ conns = <<>>
    /\ lnOpen = TRUE
    /\ lastRet = Ret("none", NilErr)

\* The outcomes <<n, err>> of Conn.Read on the socket with a buffer of length len:
\* some of the bytes that are left, EOF when the client has sent everything.
connRead(c, len) ==
    IF len = 0 THEN {<<0, "nil">>}
    ELSE IF c.pos = Len(c.stream) THEN {<<0, "EOF">>}
    ELSE {<<k, "nil">> : k \in 1..(IF len < Len(c.stream) - c.pos THEN len
                                    ELSE Len(c.stream) - c.pos)}

\* The bytes such a read puts into the buffer.
readBytes(c, k) == SubSeq(c.stream, c.pos + 1, c.pos + k)

\* The dispatch test of Accept.
isTLSAlways(b) == TRUE
isTLS(b) == b = TLSHandshake

\* Accept, first half: the underlying listener yields a connection, and the
\* listener sets the read deadline for the peek.
MuxAccept(str) ==
    /\ lnOpen
    /\ UNCHANGED nonMuxvars
    /\ Len(conns) < MaxConns
    /\ \A c \in ConnIds : Conn(c).st # "peeking"
    /\ conns' = Append(conns,
                    [NoConn EXCEPT !.st = "peeking", !.stream = str, !.deadline = TRUE])
    /\ UNCHANGED <<lnOpen, lastRet>>

\* peekConn.peek() failing, and the rest of Accept: the deadline is cleared,
\* the connection closed, a tempError returned.
PeekFail(c, e) ==
    /\ Conn(c).st = "peeking"
    /\ UNCHANGED nonMuxvars
    /\ e = "EOF" => Conn(c).stream = <<>>
    /\ conns' = [conns EXCEPT ![c] =
                    [@ EXCEPT !.st = "failed", !.peeked = TRUE, !.hasErr = TRUE, !.err = e,
                              !.deadline = FALSE, !.lcloses = @ + 1,
                              !.stream = <<>>]]      \* unread input goes with the socket
    /\ lastRet' = [Ret("none", tempError(e)) EXCEPT !.id = c]
    /\ UNCHANGED lnOpen

\* peekConn.peek() reading the first byte, and the rest of Accept: the deadline
\* is cleared and the connection returned, wrapped by tls.Server or as it is.
PeekOk(c) ==
    /\ Conn(c).st = "peeking"
    /\ UNCHANGED nonMuxvars
    /\ Conn(c).stream # <<>>
    /\ LET b == readBytes(Conn(c), 1)[1]
           k == IF isTLS(b) THEN "tls" ELSE "plain"
       IN /\ conns' = [conns EXCEPT ![c] =
                          [@ EXCEPT !.st = "handed", !.peeked = TRUE, !.first = b,
                                    !.pos = 1, !.deadline = FALSE, !.kind = k]]
          /\ lastRet' = [Ret(k, NilErr) EXCEPT !.id = c]
    /\ UNCHANGED lnOpen

\* The server shuts down and closes the listener.
CloseListener ==
    /\ lnOpen
    /\ UNCHANGED nonMuxvars
    /\ \A c \in ConnIds : Conn(c).st # "peeking"
    /\ lnOpen' = FALSE
    /\ UNCHANGED <<conns, lastRet>>

\* Accept on a closed listener: the listener's own error is returned as it is.
AcceptError ==
    /\ ~lnOpen
    /\ UNCHANGED nonMuxvars
    /\ lastRet' = Ret("none", plainError("closed"))
    /\ UNCHANGED <<conns, lnOpen>>

\* peekConn.Read(b) with len(b) = len, called by the consumer of a dispatched
\* connection (the TLS server or the HTTP server).
peekConnRead(c, len) ==
    IF c.hasErr THEN {c}
    ELSE IF c.peeked /\ len > 0
      THEN IF len = 1
             THEN {[c EXCEPT !.peeked = FALSE, !.got = Append(@, c.first)]}
             ELSE {[c EXCEPT !.peeked = FALSE,
                             !.got = Append(@, c.first) \o readBytes(c, r[1]),
                             !.pos = @ + r[1], !.eof = r[2] = "EOF"]
                   : r \in connRead(c, len - 1)}
      ELSE {[c EXCEPT !.peeked = FALSE,
                      !.got = @ \o readBytes(c, r[1]),
                      !.pos = @ + r[1], !.eof = r[2] = "EOF"]
            : r \in connRead(c, len)}

ConnRead(c, len) ==
    /\ Conn(c).st = "handed" /\ Conn(c).hcloses = 0 /\ ~Conn(c).eof
    /\ UNCHANGED nonMuxvars
    /\ \E n \in peekConnRead(Conn(c), len) :
          /\ n # Conn(c)
          /\ conns' = [conns EXCEPT ![c] = n]
    /\ UNCHANGED <<lnOpen, lastRet>>

\* The consumer is done with a dispatched connection and closes it; the wrapper
\* and what was read through it are dropped.
ConnClose(c) ==
    /\ Conn(c).st = "handed" /\ Conn(c).hcloses = 0
    /\ UNCHANGED nonMuxvars
    /\ conns' = [conns EXCEPT ![c] =
                    [NoConn EXCEPT !.st = "handed", !.stream = Conn(c).stream,
                                   !.kind = Conn(c).kind, !.hcloses = 1]]
    /\ UNCHANGED <<lnOpen, lastRet>>

NextMux ==
    \/ \E str \in Streams : MuxAccept(str)
    \/ \E c \in ConnIds, e \in PeekErrs : PeekFail(c, e)
    \/ \E c \in ConnIds : PeekOk(c)
    \/ \E c \in ConnIds, len \in 0..MaxLen : ConnRead(c, len)
    \/ \E c \in ConnIds : ConnClose(c)
    \/ CloseListener
    \/ AcceptError

\* ===========================================================================
\* The log ring (Logger)
\* ===========================================================================
LevelDebug == 0
LevelInfo  == 1
LevelWarn  == 2
LevelError == 3
Levels     == {LevelDebug, LevelInfo, LevelWarn, LevelError}
NoLevel    == -1                         \* nil *Level; no Log call
Categories == {"http", "card"}
NoCategory == "nil"                      \* nil *Category

Entry(level, category, message) ==
    [Level |-> level, Category |-> category, Message |-> message]

ZeroEntry == Entry(LevelDebug, "", 0)    \* Entry{}

\* &Logger{entries: make([]Entry, n), maxSize: n, minLevel: lv}
NewLogger(n, lv) ==
    [entries |-> [i \in 0..(n - 1) |-> ZeroEntry], maxSize |-> n,
     head |-> 0, count |-> 0, minLevel |-> lv]

\* A Log that stores the entry whatever its level.
LogIgnoringLevel(l, level, category, message) ==
    [l EXCEPT !.entries[l.head] = Entry(level, category, message),
              !.head = (l.head + 1) % l.maxSize,
              !.count = IF l.count < l.maxSize THEN l.count + 1 ELSE l.count]

\* func (l *Logger) Log(level, category, message, data)
Log(l, level, category, message) ==
    IF level < l.minLevel THEN l
    ELSE [l EXCEPT !.entries[l.head] = Entry(level, category, message),
                   !.head = (l.head + 1) % l.maxSize,
                   !.count = IF l.count < l.maxSize THEN l.count + 1 ELSE l.count]

\* func (l *Logger) SetMinLevel(level)
SetMinLevel(l, level) == [l EXCEPT !.minLevel = level]

\* A Clear that resets the count but leaves the write position.
ClearKeepsHead(l) == [l EXCEPT !.count = 0]

\* func (l *Logger) Clear()
Clear(l) == [l EXCEPT !.head = 0, !.count = 0]

\* func (l *Logger) Stats()
Stats(l) == [TotalEntries |-> l.count, MaxEntries |-> l.maxSize, MinLevel |-> l.minLevel]

\* GetEntries' loop from index i on, with `have` results collected so far.
RECURSIVE collect(_, _, _, _, _, _)
collect(l, i, have, limit, minLevel, category) ==
    IF i >= l.count THEN have
    ELSE LET idx   == (l.head - 1 - i + l.maxSize) % l.maxSize
             entry == l.entries[idx]
         IN IF minLevel # NoLevel /\ entry.Level < minLevel
              THEN collect(l, i + 1, have, limit, minLevel, category)
            ELSE IF category # NoCategory /\ entry.Category # category
              THEN collect(l, i + 1, have, limit, minLevel, category)
            ELSE IF limit > 0 /\ Len(have) + 1 >= limit
              THEN Append(have, entry)
            ELSE collect(l, i + 1, Append(have, entry), limit, minLevel, category)

\* A snapshot that filters by level only.
GetEntriesAnyCategory(l, limit, minLevel, category) ==
    IF l.count = 0 THEN <<>>
    ELSE collect(l, 0, <<>>, limit, minLevel, NoCategory)

\* A snapshot that lists the entries oldest first.
GetEntriesOldestFirst(l, limit, minLevel, category) ==
    LET r == collect(l, 0, <<>>, limit, minLevel, category)
    IN [i \in 1..Len(r) |-> r[Len(r) + 1 - i]]

\* func (l *Logger) GetEntries(limit, minLevel, category)
GetEntries(l, limit, minLevel, category) ==
    IF l.count = 0 THEN <<>>
    ELSE collect(l, 0, <<>>, limit, minLevel, category)

\* limits passed to GetEntries: 0 (no limit) up to the largest capacity
Limits == 0..MaxEntries

NoSnap == [taken |-> FALSE, result |-> <<>>]

InitLog ==
    /\ snap = NoSnap
    /\ lg = NewLogger(0, LevelDebug)
    /\ accepted = <<>>
    /\ logCalls = 0
    /\ lastLog = NoLevel

\* The logger is created with capacity n and minimum level lv.
LoggerInit(n, lv) ==
    /\ lg.maxSize = 0
    /\ UNCHANGED nonLogvars
    /\ lg' = NewLogger(n, lv)
    /\ lastLog' = NoLevel
    /\ snap' = NoSnap
    /\ UNCHANGED <<accepted, logCalls>>

\* A call of Log (through Debug, Info, Warn, Error).
LogCall(level, category) ==
    /\ lg.maxSize > 0 /\ logCalls < MaxLogs
    /\ UNCHANGED nonLogvars
    /\ logCalls' = logCalls + 1
    /\ lastLog' = level
    /\ snap' = NoSnap
    /\ lg' = Log(lg, level, category, logCalls + 1)
    /\ accepted' = IF level < lg.minLevel THEN accepted
                   ELSE Append(accepted, Entry(level, category, logCalls + 1))

LogSetMinLevel(level) ==
    /\ lg.maxSize > 0 /\ lg.minLevel # level
    /\ UNCHANGED nonLogvars
    /\ lg' = SetMinLevel(lg, level)
    /\ lastLog' = NoLevel
    /\ snap' = NoSnap
    /\ UNCHANGED <<accepted, logCalls>>

LogClear ==
    /\ lg.maxSize > 0 /\ lg.count > 0
    /\ UNCHANGED nonLogvars
    /\ lg' = Clear(lg)
    /\ accepted' = <<>>
    /\ lastLog' = NoLevel
    /\ snap' = NoSnap
    /\ UNCHANGED logCalls

\* A call of GetEntries (the logs endpoint): under the read lock, nothing is
\* written.  Snapshots that follow one another on an unchanged ring are
\* explored from the same state.
LogGetEntries(limit, minLevel, category) ==
    /\ lg.maxSize > 0 /\ ~snap.taken
    /\ UNCHANGED nonLogvars
    /\ snap' = [taken |-> TRUE, result |-> GetEntries(lg, limit, minLevel, category)]
    /\ lastLog' = NoLevel
    /\ UNCHANGED <<lg, accepted, logCalls>>

NextLog ==
    \/ \E n \in 1..MaxEntries, lv \in Levels : LoggerInit(n, lv)
    \/ \E level \in Levels, category \in Categories : LogCall(level, category)
    \/ \E level \in Levels : LogSetMinLevel(level)
    \/ LogClear

\* Snapshots of a logger that stores every level: what GetEntries is given is
\* a ring built by Log and Clear.
NextSnap ==
    \/ \E n \in 1..MaxEntries : LoggerInit(n, LevelDebug)
    \/ \E level \in Levels, category \in Categories : LogCall(level, category)
    \/ LogClear
    \/ \E limit \in Limits, minLevel \in Levels \cup {NoLevel},
          category \in Categories \cup {NoCategory} :
            LogGetEntries(limit, minLevel, category)

NextPm3 ==
    \/ \E c \in Procs : Execute(c)
    \/ \E c \in Procs : Start(c)
    \/ \E c \in Procs : WaitReadySkip(c)
    \/ \E c \in Procs : WaitReadyOk(c)
    \/ \E c \in Procs : WaitReadyFail(c)
    \/ \E c \in Procs : Write(c)
    \/ \E c \in Procs : ReadLine(c)
    \/ \E c \in Procs : ReadDone(c)
    \/ \E c \in Procs : ReadFail(c)
    \/ \E c \in Procs : SingleShotRun(c)
    \/ \E c \in Procs : SingleShotDone(c)
    \/ \E k \in ChildIds : ChildRespond(k)
    \/ \E k \in ChildIds : ChildExit(k)
    \/ \E k \in ChildIds : ReaderEOF(k)
    \/ \E k \in ChildIds : MonitorExit(k)
    \/ IdleFire
    \/ Stop

\* ===========================================================================
\* Request handling of a streaming session (WSClient.handleMessage)
\* ===========================================================================
Peers == {"p1", "p2"}
Ids   == {"a", "b"}

PasswordHexLen == 8
PackHexLen     == 4

InvalidJSON == "invalid json"      \* a payload that does not parse
NoPayload   == "no payload"

ReaderTypes == {"read_card", "write_card", "lock_card", "set_password",
                "clear_password", "write_records", "subscribe", "unsubscribe"}
PlainTypes  == {"list_readers", "version", "health", "supported_readers"}
UnknownType == "unknown_type_xyz"

\* A parsed payload: the reader index and the values the handlers validate.
\* password and pack are the lengths of the hex strings sent.
Payload(i, c, pw, pk, n, dt) ==
    [readerIndex |-> i, confirm |-> c, password |-> pw, pack |-> pk,
     records |-> n, dataType |-> dt]

Indexes == -1..MaxReaders

PayloadsOf(type) ==
    IF type \notin ReaderTypes THEN {}
    ELSE {Payload(i, c, pw, pk, n, dt) :
            i \in Indexes,
            c \in IF type = "lock_card" THEN BOOLEAN ELSE {TRUE},
            pw \in IF type \in {"set_password", "clear_password"}
                      THEN {3, PasswordHexLen} ELSE {PasswordHexLen},
            pk \in IF type = "set_password" THEN {2, PackHexLen} ELSE {PackHexLen},
            n \in IF type = "write_records" THEN {0, 1} ELSE {1},
            dt \in IF type = "write_card" THEN {"text", "invalid_type"} ELSE {"text"}}

\* parsed is FALSE for a payload that is absent or does not parse.
WSMessage(type, id, parsed, payload) ==
    [type |-> type, id |-> id, parsed |-> parsed, payload |-> payload]

NoFields == Payload(0, TRUE, PasswordHexLen, PackHexLen, 1, "text")

Requests ==
    UNION {{WSMessage(type, id, TRUE, pl) : id \in Ids, pl \in PayloadsOf(type)}
              \cup {WSMessage(type, id, FALSE, NoFields) : id \in Ids} :
              type \in ReaderTypes \cup PlainTypes \cup {UnknownType}}

\* A sendError that loses the request's id.
sendErrorNoId(id, msg) == [type |-> "error", id |-> "", error |-> msg]

\* sendError / sendResponse: the reply enqueued on the session's own queue.
sendError(id, msg) == [type |-> "error", id |-> id, error |-> msg]

sendResponse(id, type) == [type |-> type, id |-> id, error |-> ""]

ErrInvalidPayload == "invalid payload"
ErrReaderIndex    == "reader index out of range"
ErrConfirm        == "lock requires confirm=true"
ErrPassword       == "password must be 8 hex chars, pack 4"
ErrNoRecords      == "no records"
ErrDataType       == "invalid data type"
ErrUnknownType    == "unknown message type"
ErrOperation      == "operation failed"

inRange(pl, nReaders) == pl.readerIndex >= 0 /\ pl.readerIndex < nReaders

\* The value check of each request type ("" : the values are accepted).
valueError(type, pl) ==
    IF type = "lock_card" /\ ~pl.confirm THEN ErrConfirm
    ELSE IF type = "set_password"
              /\ (pl.password # PasswordHexLen \/ pl.pack # PackHexLen) THEN ErrPassword
    ELSE IF type = "clear_password" /\ pl.password # PasswordHexLen THEN ErrPassword
    ELSE IF type = "write_records" /\ pl.records = 0 THEN ErrNoRecords
    ELSE IF type = "write_card" /\ pl.dataType = "invalid_type" THEN ErrDataType
    ELSE ""

\* The operation itself, once the request is valid: it succeeds or fails.
perform(m, opOk) ==
    IF opOk THEN sendResponse(m.id, m.type) ELSE sendError(m.id, ErrOperation)

\* handleLockCard: payload, then the confirm flag, then the reader index.
handleLockCard(m, nReaders, opOk) ==
    IF ~m.parsed THEN sendError(m.id, ErrInvalidPayload)
    ELSE IF ~m.payload.confirm THEN sendError(m.id, ErrConfirm)
    ELSE IF ~inRange(m.payload, nReaders) THEN sendError(m.id, ErrReaderIndex)
    ELSE perform(m, opOk)

\* The other handlers that name a reader: payload, reader index, values.
handleReaderRequest(m, nReaders, opOk) ==
    IF ~m.parsed THEN sendError(m.id, ErrInvalidPayload)
    ELSE IF ~inRange(m.payload, nReaders) THEN sendError(m.id, ErrReaderIndex)
    ELSE IF valueError(m.type, m.payload) # ""
           THEN sendError(m.id, valueError(m.type, m.payload))
    ELSE perform(m, opOk)

\* handleMessage: dispatch on the message type.
handleMessage(m, nReaders, opOk) ==
    IF m.type = "list_readers" THEN sendResponse(m.id, "readers")
    ELSE IF m.type \in PlainTypes THEN sendResponse(m.id, m.type)
    ELSE IF m.type = "lock_card" THEN handleLockCard(m, nReaders, opOk)
    ELSE IF m.type \in ReaderTypes THEN handleReaderRequest(m, nReaders, opOk)
    ELSE sendError(m.id, ErrUnknownType)

NoExchange == [sess |-> "none", msg |-> WSMessage("none", "", FALSE, NoFields),
               reply |-> sendResponse("", "none")]

InitReq ==
    /\ wsReaders = 0
    /\ wsOut = [s \in Peers |-> <<>>]
    /\ wsLast = NoExchange

\* Session s reads message m from its socket and handles it; the reader index
\* is checked against the enumeration of that moment.
WsHandle(s, m, opOk) ==
    /\ Len(wsOut[s]) < MaxReplies
    /\ UNCHANGED nonReqvars
    /\ LET reply == handleMessage(m, wsReaders, opOk)
       IN /\ wsOut' = [wsOut EXCEPT ![s] = Append(@, reply.id)]
          /\ wsLast' = [sess |-> s, msg |-> m, reply |-> reply]
    /\ UNCHANGED wsReaders

\* A reader is plugged in or removed.
ReadersChange(n) ==
    /\ n # wsReaders
    /\ UNCHANGED nonReqvars
    /\ wsReaders' = n
    /\ UNCHANGED <<wsOut, wsLast>>

NextReq ==
    \/ \E s \in Peers, m \in Requests, opOk \in BOOLEAN : WsHandle(s, m, opOk)
    \/ \E n \in 0..MaxReaders : ReadersChange(n)

\* ===========================================================================
\* Response collection of one command (PersistentClient.readUntilDoneWithSilence)
\* Time is counted in units of 100 ms.
\* ===========================================================================
SilenceRead == 5          \* Execute: 500 ms
SilenceFast == 1          \* ExecuteFast: 100 ms
MaxTime     == MaxBudget + SilenceRead

\* A line is the sequence of its words.
EmptyLine == <<>>
EchoLine  == <<"[usb]", "pm3", "-->", "hf 15 reader">>
DataLine  == <<"UID:", "E0 04">>
Lines     == {EmptyLine, EchoLine, DataLine}
NL        == <<"\n">>

\* promptRegex `^\[.+\]\s+pm3\s+-->` : a bracketed word, then pm3, then -->, at
\* the start of the line.
promptRegex(line) ==
    /\ Len(line) >= 3
    /\ line[1] \in {"[usb]", "[usb|script]"}
    /\ line[2] = "pm3"
    /\ line[3] = "-->"

isSpace(x) == x = NL

\* strings.TrimSpace on the buffer: leading and trailing white space goes.
RECURSIVE TrimLeft(_)
TrimLeft(b) == IF b # <<>> /\ isSpace(Head(b)) THEN TrimLeft(Tail(b)) ELSE b

RECURSIVE TrimRight(_)
TrimRight(b) ==
    IF b # <<>> /\ isSpace(b[Len(b)]) THEN TrimRight(SubSeq(b, 1, Len(b) - 1)) ELSE b

TrimSpace(b) == TrimRight(TrimLeft(b))

\* A silence timeout that never ends the collection.
afterSilenceKeepsWaiting(gotOutput) == "top"

\* readLineWithTimeout timed out: done when output was seen, else keep waiting.
afterSilence(gotOutput) == IF gotOutput THEN "done" ELSE "top"

NoResult == [output |-> <<>>, err |-> "none"]

\* An Execute that returns whatever readUntilDone gave it.
afterReadAlwaysReturns(err) == "return"

\* Execute after readUntilDone returned: with an error it kills the child and
\* retries the command one-shot; else it returns the output.
afterRead(err) == IF err = "" THEN "return" ELSE "fallback"

InitRd ==
    /\ rdPc = "idle"
    /\ rdNow = 0
    /\ rdDeadline = 0
    /\ rdSilence = 0
    /\ rdWaitFrom = 0
    /\ rdLines = <<>>
    /\ rdClosed = FALSE
    /\ rdEmitted = 0
    /\ rdBuf = <<>>
    /\ rdGot = FALSE
    /\ rdRet = NoResult
    /\ rdQuiet = 0
    /\ rdSeen = <<>>
    /\ rdSpins = 0
    /\ rdOld = <<>>
    /\ rdStale = FALSE
    /\ rdExec = "none"

\* Execute writes the command to stdin and enters
\* readUntilDoneWithSilence(timeout, silenceTimeout): on a child just started,
\* or on the child the previous command left running.  The channel keeps the
\* lines it holds; the buffer and gotOutput are the call's own.
ReadBegin(timeout, silenceTimeout) ==
    /\ rdPc = "idle" \/ (rdPc = "done" /\ rdExec = "return")
    /\ rdNow + timeout <= MaxBudget
    /\ UNCHANGED nonRdvars
    /\ rdPc' = "top"
    /\ rdDeadline' = rdNow + timeout
    /\ rdSilence' = silenceTimeout
    /\ rdQuiet' = rdNow
    /\ rdBuf' = <<>>
    /\ rdGot' = FALSE
    /\ rdRet' = NoResult
    /\ rdSeen' = <<>>
    /\ rdSpins' = 0
    /\ rdOld' = [i \in 1..Len(rdLines) |-> TRUE]
    /\ rdStale' = FALSE
    /\ rdExec' = "none"
    /\ UNCHANGED <<rdNow, rdWaitFrom, rdLines, rdClosed, rdEmitted>>

\* Top of the loop: past the deadline the call returns what it has, or the
\* timeout error when it has nothing; else it waits for a line.
ReadTop ==
    /\ rdPc = "top"
    /\ UNCHANGED nonRdvars
    /\ IF rdNow > rdDeadline
         THEN /\ rdPc' = "done"
              /\ rdRet' = IF rdGot THEN [output |-> TrimSpace(rdBuf), err |-> ""]
                                   ELSE [output |-> rdBuf, err |-> "timeout"]
              /\ rdExec' = afterRead(rdRet'.err)
              /\ UNCHANGED rdWaitFrom
         ELSE /\ rdPc' = "wait"
              /\ rdWaitFrom' = rdNow
              /\ UNCHANGED <<rdRet, rdExec>>
    /\ UNCHANGED <<rdNow, rdDeadline, rdSilence, rdLines, rdClosed, rdEmitted, rdBuf, rdGot,
                   rdQuiet, rdSeen, rdSpins, rdOld, rdStale>>

\* readLineWithTimeout received a line: empty lines and command echoes are
\* skipped, any other line is appended to the buffer.
ReadLineIn ==
    /\ rdPc = "wait" /\ rdLines # <<>>
    /\ UNCHANGED nonRdvars
    /\ rdLines' = Tail(rdLines)
    /\ rdOld' = Tail(rdOld)
    /\ rdPc' = "top"
    /\ rdQuiet' = rdNow
    /\ rdSeen' = Append(rdSeen, Head(rdLines))
    /\ IF Head(rdLines) = EmptyLine \/ promptRegex(Head(rdLines))
         THEN UNCHANGED <<rdBuf, rdGot, rdStale>>
         ELSE /\ rdGot' = TRUE
              /\ rdBuf' = rdBuf \o <<Head(rdLines), NL>>
              /\ rdStale' = (rdStale \/ Head(rdOld))
    /\ UNCHANGED <<rdNow, rdDeadline, rdSilence, rdWaitFrom, rdClosed, rdEmitted, rdRet,
                   rdSpins, rdExec>>

\* readLineWithTimeout found the channel closed: the call returns io.EOF.
ReadEOF ==
    /\ rdPc = "wait" /\ rdLines = <<>> /\ rdClosed
    /\ UNCHANGED nonRdvars
    /\ rdPc' = "done"
    /\ rdRet' = [output |-> rdBuf, err |-> "EOF"]
    /\ rdExec' = afterRead("EOF")
    /\ UNCHANGED <<rdNow, rdDeadline, rdSilence, rdWaitFrom, rdLines, rdClosed, rdEmitted,
                   rdBuf, rdGot, rdQuiet, rdSeen, rdSpins, rdOld, rdStale>>

\* readLineWithTimeout timed out: the silence interval passed without a line.
\* (With a line ready at the same instant, select may take either case.)
ReadSilence ==
    /\ rdPc = "wait" /\ rdNow >= rdWaitFrom + rdSilence
    /\ UNCHANGED nonRdvars
    /\ rdPc' = afterSilence(rdGot)
    /\ rdRet' = IF afterSilence(rdGot) = "done"
                  THEN [output |-> TrimSpace(rdBuf), err |-> ""] ELSE rdRet
    /\ rdExec' = IF afterSilence(rdGot) = "done" THEN afterRead("") ELSE rdExec
    /\ rdSpins' = IF afterSilence(rdGot) = "done" THEN rdSpins ELSE rdSpins + 1
    /\ UNCHANGED <<rdNow, rdDeadline, rdSilence, rdWaitFrom, rdLines, rdClosed, rdEmitted,
                   rdBuf, rdGot, rdQuiet, rdSeen, rdOld, rdStale>>

\* The child is running: a command is being collected, or the last one returned
\* its output and left the child as it was.
ChildRunning == rdPc \in {"top", "wait"} \/ (rdPc = "done" /\ rdExec = "return")

\* The line reader task passes a line of the child's output on.
ChildLine(line) ==
    /\ ChildRunning /\ ~rdClosed /\ rdEmitted < MaxLines
    /\ UNCHANGED nonRdvars
    /\ rdLines' = Append(rdLines, line)
    /\ rdOld' = Append(rdOld, FALSE)
    /\ rdEmitted' = rdEmitted + 1
    /\ UNCHANGED <<rdPc, rdNow, rdDeadline, rdSilence, rdWaitFrom, rdClosed, rdBuf, rdGot,
                   rdRet, rdQuiet, rdSeen, rdSpins, rdStale, rdExec>>

\* The child's stdout ends: the line reader task closes the channel.
ChildEOF ==
    /\ ChildRunning /\ ~rdClosed
    /\ UNCHANGED nonRdvars
    /\ rdClosed' = TRUE
    /\ UNCHANGED <<rdPc, rdNow, rdDeadline, rdSilence, rdWaitFrom, rdLines, rdEmitted, rdBuf,
                   rdGot, rdRet, rdQuiet, rdSeen, rdSpins, rdOld, rdStale, rdExec>>

\* 100 ms pass.  Time passes only while the call has nothing to do: it is
\* waiting, no line is ready, and its timer has not fired.
Tick ==
    /\ rdPc = "wait" /\ rdLines = <<>> /\ ~rdClosed
    /\ rdNow < rdWaitFrom + rdSilence
    /\ rdNow < MaxTime
    /\ UNCHANGED nonRdvars
    /\ rdNow' = rdNow + 1
    /\ UNCHANGED <<rdPc, rdDeadline, rdSilence, rdWaitFrom, rdLines, rdClosed, rdEmitted,
                   rdBuf, rdGot, rdRet, rdQuiet, rdSeen, rdSpins, rdOld, rdStale, rdExec>>

NextRd ==
    \/ \E timeout \in 1..MaxBudget, silenceTimeout \in {SilenceRead, SilenceFast} :
          ReadBegin(timeout, silenceTimeout)
    \/ ReadTop
    \/ ReadLineIn
    \/ ReadEOF
    \/ ReadSilence
    \/ \E line \in Lines : ChildLine(line)
    \/ ChildEOF
    \/ Tick

\* ===========================================================================
\* Classification of a command's output (detectOutputError, IsWriteSuccess and
\* the write operations of PersistentClient)
\* ===========================================================================
\* The output is the sequence of its words; a pattern is a sequence of lower-case
\* words, and strings.Contains is the search for it as a contiguous run.
OutLines ==
    {<<"[!]", "No", "tag", "found">>,
     <<"[!]", "Auth", "error">>,
     <<"[+]", "Write", "block", "successful">>,
     <<"[+]", "OK">>,
     <<"[=]", "wrote", "block">>,
     <<"[-]", "write", "Failed">>}

RECURSIVE Flatten(_)
Flatten(ls) == IF ls = <<>> THEN <<>> ELSE Head(ls) \o Flatten(Tail(ls))

Outputs == {Flatten(ls) : ls \in UNION {[1..n -> OutLines] : n \in 0..MaxOutLines}}

\* strings.ToLower, word by word.
lowerWord(w) ==
    CASE w = "No" -> "no"
      [] w = "Auth" -> "auth"
      [] w = "Write" -> "write"
      [] w = "OK" -> "ok"
      [] w = "Failed" -> "failed"
      [] OTHER -> w

ToLower(out) == [i \in 1..Len(out) |-> lowerWord(out[i])]

Contains(out, pattern) ==
    \E i \in 1..(Len(out) - Len(pattern) + 1) :
        SubSeq(out, i, i + Len(pattern) - 1) = pattern

noCardPatterns ==
    {<<"no", "tag", "found">>, <<"can't", "select", "card">>, <<"no", "card">>,
     <<"tag", "lost">>, <<"iso14443a", "card", "select", "failed">>}

authFailPatterns ==
    {<<"authentication", "failed">>, <<"auth", "error">>, <<"wrong", "key">>,
     <<"nested", "authentication", "failed">>}

successPatterns ==
    {<<"ok">>, <<"successful">>, <<"done">>, <<"write", "block", "successful">>}

errorPatterns15693 == {<<"error">>, <<"failed">>, <<"no", "tag", "found">>}

\* detectOutputError: ErrNoCard, ErrAuthFailed or nil.
detectOutputError(out) ==
    IF \E pt \in noCardPatterns : Contains(ToLower(out), pt) THEN "ErrNoCard"
    ELSE IF \E pt \in authFailPatterns : Contains(ToLower(out), pt) THEN "ErrAuthFailed"
    ELSE "nil"

IsWriteSuccess(out) == \E pt \in successPatterns : Contains(ToLower(out), pt)

\* Execute / ExecuteFast, given the output collected: the error found in it, if any.
executeErr(out) == detectOutputError(out)

\* WriteMifareBlock, WriteUltralightPage.
writeChecked(out) ==
    IF executeErr(out) # "nil" THEN executeErr(out)
    ELSE IF ~IsWriteSuccess(out) THEN "ErrWriteFailed"
    ELSE "nil"

\* WriteISO15693Block: looks for error words only; its error does not wrap
\* ErrWriteFailed.
WriteISO15693Block(out) ==
    IF executeErr(out) # "nil" THEN executeErr(out)
    ELSE IF \E pt \in errorPatterns15693 : Contains(ToLower(out), pt) THEN "write failed"
    ELSE "nil"

WriteOps == {"WriteMifareBlock", "WriteUltralightPage", "WriteISO15693Block"}
Ops      == WriteOps \cup {"Execute"}

resultOf(op, out) ==
    IF op = "Execute" THEN executeErr(out)
    ELSE IF op = "WriteISO15693Block" THEN WriteISO15693Block(out)
    ELSE writeChecked(out)

InitCls ==
    /\ clsOp = "none"
    /\ clsOut = <<>>
    /\ clsErr = "nil"

\* Operation op runs and the child prints the output out.
Classify(op, out) ==
    /\ UNCHANGED nonClsvars
    /\ clsOp' = op
    /\ clsOut' = out
    /\ clsErr' = resultOf(op, out)

NextCls == \E op \in Ops, out \in Outputs : Classify(op, out)

\* ===========================================================================
\* IsConnected of the two executors (Client, PersistentClient)
\* ===========================================================================
Kinds == {"Client", "PersistentClient"}

\* An IsConnected that probes without looking at the busy flag.
decideIgnoringBusy(kind, isBusy, isRunning) ==
    IF kind = "PersistentClient" /\ isRunning THEN "true" ELSE "probe"

\* IsConnected's decision from what it read under the mutex: busy means
\* connected; a running subprocess (persistent executor) means connected;
\* otherwise the probe command decides.
decide(kind, isBusy, isRunning) ==
    IF isBusy THEN "true"
    ELSE IF kind = "PersistentClient" /\ isRunning THEN "true"
    ELSE "probe"

NoRead == [busy |-> FALSE, running |-> FALSE]

InitIc ==
    /\ icKind = "none"
    /\ icBusy = FALSE
    /\ icRunning = FALSE
    /\ icPc = "idle"
    /\ icSaw = NoRead
    /\ icSent = 0
    /\ icRet = FALSE
    /\ icCalls = 0
    /\ icProbe = "none"

\* NewClient / NewPersistentClient.
IcNew(kind) ==
    /\ icKind = "none"
    /\ UNCHANGED nonIcvars
    /\ icKind' = kind
    /\ UNCHANGED <<icBusy, icRunning, icPc, icSaw, icSent, icRet, icCalls, icProbe>>

\* IsConnected, the locked section: read busy (and running), and return true
\* or go on to the probe.
IcCheck ==
    /\ icKind \in Kinds /\ icPc \in {"idle", "done"} /\ icCalls < MaxChecks
    /\ UNCHANGED nonIcvars
    /\ icCalls' = icCalls + 1
    /\ icSaw' = [busy |-> icBusy, running |-> icRunning]
    /\ icSent' = 0
    /\ icProbe' = "none"
    /\ IF decide(icKind, icBusy, icRunning) = "true"
         THEN icPc' = "done" /\ icRet' = TRUE
         ELSE icPc' = "probe" /\ icRet' = FALSE
    /\ UNCHANGED <<icKind, icBusy, icRunning>>

\* The probe: Execute(ctx, "hw version") sets busy and sends the command.
IcProbeSend ==
    /\ icPc = "probe"
    /\ UNCHANGED nonIcvars
    /\ icPc' = "probing"
    /\ icBusy' = TRUE
    /\ icSent' = icSent + 1
    /\ UNCHANGED <<icKind, icRunning, icSaw, icRet, icCalls, icProbe>>

\* The probe returns: busy is reset, and IsConnected returns err == nil.  A
\* persistent executor whose probe succeeded in persistent mode is running.
IcProbeDone(ok, stays) ==
    /\ icPc = "probing"
    /\ UNCHANGED nonIcvars
    /\ icPc' = "done"
    /\ icBusy' = FALSE
    /\ icRet' = ok
    /\ icProbe' = IF ok THEN "ok" ELSE "failed"
    /\ icRunning' = (icKind = "PersistentClient" /\ (icRunning \/ (ok /\ stays)))
    /\ UNCHANGED <<icKind, icSaw, icSent, icCalls>>

\* Another caller's Execute begins or ends.
IcCommand(b) ==
    /\ icKind \in Kinds /\ icBusy # b /\ icPc # "probing"
    /\ UNCHANGED nonIcvars
    /\ icBusy' = b
    /\ icRunning' = IF b /\ icKind = "PersistentClient" THEN TRUE ELSE icRunning
    /\ UNCHANGED <<icKind, icPc, icSaw, icSent, icRet, icCalls, icProbe>>

\* The subprocess of the persistent executor stops (idle timer, exit).
IcStop ==
    /\ icKind = "PersistentClient" /\ icRunning /\ ~icBusy
    /\ UNCHANGED nonIcvars
    /\ icRunning' = FALSE
    /\ UNCHANGED <<icKind, icBusy, icPc, icSaw, icSent, icRet, icCalls, icProbe>>

NextIc ==
    \/ \E kind \in Kinds : IcNew(kind)
    \/ IcCheck
    \/ IcProbeSend
    \/ \E ok \in BOOLEAN, stays \in BOOLEAN : IcProbeDone(ok, stays)
    \/ \E b \in BOOLEAN : IcCommand(b)
    \/ IcStop

\* ===========================================================================
\* Reader enumeration (core.ListReaders)
\* ===========================================================================
\* A reader name is the sequence of its characters.
ReaderNames ==
    {<<"R", " ", "S", "A", "M", " ", "0">>,      \* "R SAM 0"
     <<"s", "a", "m", " ", "r">>,                \* "sam r"
     <<"R", " ", "P", "I", "C", "C">>,           \* "R PICC"
     <<"S", "A", "M">>,                          \* "SAM"
     <<"A", "C", "R">>}                          \* "ACR"

lowerChar(ch) ==
    CASE ch = "S" -> "s" [] ch = "A" -> "a" [] ch = "M" -> "m" [] ch = "R" -> "r"
      [] ch = "P" -> "p" [] ch = "I" -> "i" [] ch = "C" -> "c" [] OTHER -> ch

nameLower(name) == [i \in 1..Len(name) |-> lowerChar(name[i])]

\* detectReaderType: "sam" when the lower-cased name contains " sam" or "sam ".
detectReaderType(name) ==
    IF Contains(nameLower(name), <<" ", "s", "a", "m">>)
         \/ Contains(nameLower(name), <<"s", "a", "m", " ">>)
      THEN "sam"
      ELSE "picc"

Reader(idx, name, type) == [ID |-> <<"reader-", idx>>, Name |-> name, Type |-> type]

\* A loop that numbers the readers by their place in the PC/SC list.
RECURSIVE collectReadersByPlace(_, _, _)
collectReadersByPlace(names, readerIndex, acc) ==
    IF names = <<>> THEN acc
    ELSE IF detectReaderType(Head(names)) = "sam"
           THEN collectReadersByPlace(Tail(names), readerIndex + 1, acc)
           ELSE collectReadersByPlace(Tail(names), readerIndex + 1,
                    Append(acc, Reader(readerIndex, Head(names), detectReaderType(Head(names)))))

\* The loop of ListReaders over readerNames: SAM slots are skipped, every other
\* name is appended with the next ordinal.
RECURSIVE collectReaders(_, _, _)
collectReaders(names, readerIndex, acc) ==
    IF names = <<>> THEN acc
    ELSE IF detectReaderType(Head(names)) = "sam"
           THEN collectReaders(Tail(names), readerIndex, acc)
           ELSE collectReaders(Tail(names), readerIndex + 1,
                    Append(acc, Reader(readerIndex, Head(names), detectReaderType(Head(names)))))

\* A Go slice: nil or not, and its elements.
Slice(isNil, items) == [isNil |-> isNil, items |-> items]

\* ListReaders: []Reader{} when the context or the listing fails.
ListReaders(ctxOk, listOk, names) ==
    IF ~ctxOk THEN Slice(FALSE, <<>>)
    ELSE IF ~listOk THEN Slice(FALSE, <<>>)
    ELSE Slice(FALSE, collectReaders(names, 0, <<>>))

NameLists == UNION {[1..n -> ReaderNames] : n \in 0..MaxNames}

InitLr ==
    /\ lrCall = [called |-> FALSE, ctxOk |-> FALSE, listOk |-> FALSE, names |-> <<>>]
    /\ lrRet = Slice(TRUE, <<>>)

\* One call of ListReaders: PC/SC gives a context or not, a list or not.
LrCall(ctxOk, listOk, names) ==
    /\ ctxOk \/ (~listOk /\ names = <<>>)
    /\ listOk \/ names = <<>>
    /\ UNCHANGED nonLrvars
    /\ lrCall' = [called |-> TRUE, ctxOk |-> ctxOk, listOk |-> listOk, names |-> names]
    /\ lrRet' = ListReaders(ctxOk, listOk, names)

NextLr == \E ctxOk \in BOOLEAN, listOk \in BOOLEAN, names \in NameLists :
             LrCall(ctxOk, listOk, names)

\* ===========================================================================
\* URI prefix codes of the NDEF URI record (core.findURIPrefix, core.getURIPrefix)
\* ===========================================================================
\* A URI is the sequence of its characters; a prefix code is one byte.
Bytes == 0..255

\* The prefix of each code 0x01..0x23, at the index of its code.
uriPrefixTable ==
  <<
     <<"h", "t", "t", "p", ":", "/", "/", "w", "w", "w", ".">>,   \* 0x01 "http://www."
     <<"h", "t", "t", "p", "s", ":", "/", "/", "w", "w", "w", ".">>,   \* 0x02 "https://www."
     <<"h", "t", "t", "p", ":", "/", "/">>,   \* 0x03 "http://"
     <<"h", "t", "t", "p", "s", ":", "/", "/">>,   \* 0x04 "https://"
     <<"t", "e", "l", ":">>,   \* 0x05 "tel:"
     <<"m", "a", "i", "l", "t", "o", ":">>,   \* 0x06 "mailto:"
     <<"f", "t", "p", ":", "/", "/", "a", "n", "o", "n", "y", "m", "o", "u", "s", ":", "a", "n", "o", "n", "y", "m", "o", "u", "s", "@">>,   \* 0x07 "ftp://anonymous:anonymous@"
     <<"f", "t", "p", ":", "/", "/", "f", "t", "p", ".">>,   \* 0x08 "ftp://ftp."
     <<"f", "t", "p", "s", ":", "/", "/">>,   \* 0x09 "ftps://"
     <<"s", "f", "t", "p", ":", "/", "/">>,   \* 0x0A "sftp://"
     <<"s", "m", "b", ":", "/", "/">>,   \* 0x0B "smb://"
     <<"n", "f", "s", ":", "/", "/">>,   \* 0x0C "nfs://"
     <<"f", "t", "p", ":", "/", "/">>,   \* 0x0D "ftp://"
     <<"d", "a", "v", ":", "/", "/">>,   \* 0x0E "dav://"
     <<"n", "e", "w", "s", ":">>,   \* 0x0F "news:"
     <<"t", "e", "l", "n", "e", "t", ":", "/", "/">>,   \* 0x10 "telnet://"
     <<"i", "m", "a", "p", ":">>,   \* 0x11 "imap:"
     <<"r", "t", "s", "p", ":", "/", "/">>,   \* 0x12 "rtsp://"
     <<"u", "r", "n", ":">>,   \* 0x13 "urn:"
     <<"p", "o", "p", ":">>,   \* 0x14 "pop:"
     <<"s", "i", "p", ":">>,   \* 0x15 "sip:"
     <<"s", "i", "p", "s", ":">>,   \* 0x16 "sips:"
     <<"t", "f", "t", "p", ":">>,   \* 0x17 "tftp:"
     <<"b", "t", "s", "p", "p", ":", "/", "/">>,   \* 0x18 "btspp://"
     <<"b", "t", "l", "2", "c", "a", "p", ":", "/", "/">>,   \* 0x19 "btl2cap://"
     <<"b", "t", "g", "o", "e", "p", ":", "/", "/">>,   \* 0x1A "btgoep://"
     <<"t", "c", "p", "o", "b", "e", "x", ":", "/", "/">>,   \* 0x1B "tcpobex://"
     <<"i", "r", "d", "a", "o", "b", "e", "x", ":", "/", "/">>,   \* 0x1C "irdaobex://"
     <<"f", "i", "l", "e", ":", "/", "/">>,   \* 0x1D "file://"
     <<"u", "r", "n", ":", "e", "p", "c", ":", "i", "d", ":">>,   \* 0x1E "urn:epc:id:"
     <<"u", "r", "n", ":", "e", "p", "c", ":", "t", "a", "g", ":">>,   \* 0x1F "urn:epc:tag:"
     <<"u", "r", "n", ":", "e", "p", "c", ":", "p", "a", "t", ":">>,   \* 0x20 "urn:epc:pat:"
     <<"u", "r", "n", ":", "e", "p", "c", ":", "r", "a", "w", ":">>,   \* 0x21 "urn:epc:raw:"
     <<"u", "r", "n", ":", "e", "p", "c", ":">>,   \* 0x22 "urn:epc:"
     <<"u", "r", "n", ":", "n", "f", "c", ":">>   \* 0x23 "urn:nfc:"
  >>

\* getURIPrefix: the prefix of a code; the empty string for code 0 and for every
\* code the table does not define.
getURIPrefix(code) ==
    IF code \in 1..Len(uriPrefixTable) THEN uriPrefixTable[code] ELSE <<>>

HasPrefix(s, prefix) ==
    Len(s) >= Len(prefix) /\ SubSeq(s, 1, Len(prefix)) = prefix

\* A table whose first two entries carry the codes of the "www." prefixes.
encoderPrefixesWwwCodes ==
    << [code |-> 2, prefix |-> <<"h", "t", "t", "p", "s", ":", "/", "/">>],
       [code |-> 1, prefix |-> <<"h", "t", "t", "p", ":", "/", "/">>],
       [code |-> 5, prefix |-> <<"t", "e", "l", ":">>],
       [code |-> 6, prefix |-> <<"m", "a", "i", "l", "t", "o", ":">>] >>

\* The prefixes findURIPrefix tries, in the order it tries them: "https://" and
\* "http://" come before their "www." forms, so the "www." forms never match.
encoderPrefixes ==
    << [code |-> 4, prefix |-> <<"h", "t", "t", "p", "s", ":", "/", "/">>],
       [code |-> 3, prefix |-> <<"h", "t", "t", "p", ":", "/", "/">>],
       [code |-> 2, prefix |-> <<"h", "t", "t", "p", "s", ":", "/", "/", "w", "w", "w", ".">>],
       [code |-> 1, prefix |-> <<"h", "t", "t", "p", ":", "/", "/", "w", "w", "w", ".">>],
       [code |-> 5, prefix |-> <<"t", "e", "l", ":">>],
       [code |-> 6, prefix |-> <<"m", "a", "i", "l", "t", "o", ":">>] >>

\* findURIPrefix: the code of the first prefix tried that the URI starts with
\* and the URI without that prefix; code 0 and the whole URI when none matches.
RECURSIVE findURIPrefixFrom(_, _)
findURIPrefixFrom(uri, i) ==
    IF i > Len(encoderPrefixes) THEN <<0, uri>>
    ELSE IF HasPrefix(uri, encoderPrefixes[i].prefix)
           THEN <<encoderPrefixes[i].code,
                  SubSeq(uri, Len(encoderPrefixes[i].prefix) + 1, Len(uri))>>
           ELSE findURIPrefixFrom(uri, i + 1)

findURIPrefix(uri) == findURIPrefixFrom(uri, 1)

\* The URIs split: every prefix of the table, the empty string, an upper-case
\* scheme and an unknown scheme, each followed by up to MaxTail characters.
TailChars == {"e", "w"}

RECURSIVE TailsOf(_)
TailsOf(n) ==
    IF n = 0 THEN {<<>>}
    ELSE TailsOf(n - 1) \cup {Append(t, ch) : t \in TailsOf(n - 1), ch \in TailChars}

Tails == TailsOf(MaxTail)

UriBases ==
    {uriPrefixTable[i] : i \in 1..Len(uriPrefixTable)}
      \cup {<<>>, <<"H", "T", "T", "P", "S", ":", "/", "/">>, <<"c", "u", "s", "t", "o", "m", ":", "/", "/">>}

URIs == {b \o t : b \in UriBases, t \in Tails}

NoUriOp == [kind |-> "none", uri |-> <<>>, code |-> 0, rest |-> <<>>]

InitUri == uriOp = NoUriOp

\* The encoder splits a URI into a prefix code and a remainder.
UriSplit(uri) ==
    /\ uriOp' = [kind |-> "split", uri |-> uri,
                 code |-> findURIPrefix(uri)[1], rest |-> findURIPrefix(uri)[2]]
    /\ UNCHANGED nonUrivars

\* The decoder rebuilds a URI from any code byte and a remainder.
UriDecode(code, rest) ==
    /\ uriOp' = [kind |-> "decode", uri |-> getURIPrefix(code) \o rest,
                 code |-> code, rest |-> rest]
    /\ UNCHANGED nonUrivars

NextUri ==
    \/ \E uri \in URIs : UriSplit(uri)
    \/ \E code \in Bytes, rest \in Tails : UriDecode(code, rest)

\* ===========================================================================
\* NDEF message encoding (core.createNDEFRecordRaw and the message encoder)
\* ===========================================================================
\* A record to encode: its TNF, its type bytes and its payload bytes.
payloadOfLen(n) == [i \in 1..n |-> (i - 1) % 256]

PayloadLens == {0, 4, 255, 256, 300}

NdefInputs ==
    {[tnf |-> 1, type |-> <<84>>, payload |-> payloadOfLen(n)] : n \in PayloadLens}
      \cup {[tnf |-> 2, type |-> <<97, 47, 106>>, payload |-> payloadOfLen(n)] : n \in PayloadLens}

RECURSIVE NdefMessagesOf(_)
NdefMessagesOf(n) ==
    IF n = 1 THEN {<<r>> : r \in NdefInputs}
    ELSE NdefMessagesOf(n - 1)
           \cup {Append(m, r) : m \in {x \in NdefMessagesOf(n - 1) : Len(x) = n - 1},
                                r \in NdefInputs}

NdefMessages == NdefMessagesOf(MaxRecords)

\* The four bytes of a length, most significant first.
bigEndian32(n) ==
    <<(n \div 16777216) % 256, (n \div 65536) % 256, (n \div 256) % 256, n % 256>>

\* A record builder that takes the short form up to and including 256 bytes.
createNDEFRecordRawShortAt256(tnf, typeBytes, payload, mb, me) ==
    LET sr == Len(payload) <= 256
        header == (IF mb THEN 128 ELSE 0) + (IF me THEN 64 ELSE 0)
                    + (IF sr THEN 16 ELSE 0) + tnf
    IN  <<header, Len(typeBytes)>>
          \o (IF sr THEN <<Len(payload) % 256>> ELSE bigEndian32(Len(payload)))
          \o typeBytes \o payload

\* createNDEFRecordRaw: header byte MB(0x80) + ME(0x40) + SR(0x10) + TNF, the
\* type length, the payload length (one byte when short, else four bytes
\* big-endian), the type, the payload.
createNDEFRecordRaw(tnf, typeBytes, payload, mb, me) ==
    LET sr == Len(payload) < 256
        header == (IF mb THEN 128 ELSE 0) + (IF me THEN 64 ELSE 0)
                    + (IF sr THEN 16 ELSE 0) + tnf
    IN  <<header, Len(typeBytes)>>
          \o (IF sr THEN <<Len(payload)>> ELSE bigEndian32(Len(payload)))
          \o typeBytes \o payload

\* The records of a message one after the other: MB on the first, ME on the last.
RECURSIVE encodeRecords(_, _)
encodeRecords(recs, i) ==
    IF i > Len(recs) THEN <<>>
    ELSE createNDEFRecordRaw(recs[i].tnf, recs[i].type, recs[i].payload,
                             i = 1, i = Len(recs))
           \o encodeRecords(recs, i + 1)

\* The TLV around the records: 0x03, the length (0xFF hi lo from 255 on), the
\* records, the terminator 0xFE.
wrapTLV(body) ==
    <<3>>
      \o (IF Len(body) < 255 THEN <<Len(body)>>
          ELSE <<255, (Len(body) \div 256) % 256, Len(body) % 256>>)
      \o body \o <<254>>

encodeNDEFMessage(recs) == wrapTLV(encodeRecords(recs, 1))

InitNdef ==
    /\ ndefRecs = <<>>
    /\ ndefBytes = <<>>

\* A message of one or more records is encoded.
NdefEncode(recs) ==
    /\ ndefRecs' = recs
    /\ ndefBytes' = encodeNDEFMessage(recs)
    /\ UNCHANGED nonNdefvars

NextNdef == \E recs \in NdefMessages : NdefEncode(recs)

\* ===========================================================================
\* The SDK's CardPoller: start, stop and the poll timer
\* ===========================================================================
\* new CardPoller(client, readerIndex): not running, no timer, nothing read.
NewCardPoller == [running |-> FALSE, timers |-> 0, reads |-> 0]

\* A start that sets up a poll even when the poller is running.
pollerStartAgain(s) ==
    [running |-> TRUE, timers |-> s.timers + 1, reads |-> s.reads + 1]

\* start(): ignored while running; else the initial read and the interval timer.
pollerStart(s) ==
    IF s.running THEN s
    ELSE [running |-> TRUE, timers |-> s.timers + 1, reads |-> s.reads + 1]

\* stop(): polling stops, the interval timer is cleared.
pollerStop(s) == [s EXCEPT !.running = FALSE, !.timers = 0]

\* One interval passes: every timer set calls readCard once.
pollerInterval(s) == [s EXCEPT !.reads = s.reads + s.timers]

InitCp ==
    /\ cp = NewCardPoller
    /\ cpWanted = FALSE
    /\ cpSince = [reads |-> 0, intervals |-> 0]
    /\ cpCalls = 0

\* poller.start()
CpStart ==
    /\ cpCalls < MaxPollerCalls
    /\ cp' = pollerStart(cp)
    /\ cpWanted' = TRUE
    /\ cpSince' = IF cpWanted THEN cpSince ELSE [reads |-> cp.reads, intervals |-> 0]
    /\ cpCalls' = cpCalls + 1
    /\ UNCHANGED nonCpvars

\* poller.stop()
CpStop ==
    /\ cpCalls < MaxPollerCalls
    /\ cp' = pollerStop(cp)
    /\ cpWanted' = FALSE
    /\ cpCalls' = cpCalls + 1
    /\ UNCHANGED cpSince
    /\ UNCHANGED nonCpvars

\* The clock advances by one interval.
CpInterval ==
    /\ cpCalls < MaxPollerCalls
    /\ cp' = pollerInterval(cp)
    /\ cpSince' = [cpSince EXCEPT !.intervals = @ + 1]
    /\ cpCalls' = cpCalls + 1
    /\ UNCHANGED cpWanted
    /\ UNCHANGED nonCpvars

NextCp ==
    \/ CpStart
    \/ CpStop
    \/ CpInterval

Init == InitPm3 /\ InitHub /\ InitBc /\ InitMux /\ InitLog /\ InitReq /\ InitRd /\ InitCls /\ InitIc /\ InitLr /\ InitUri /\ InitNdef /\ InitCp

SpecPm3 == Init /\ [][NextPm3]_vars

SpecHub == Init /\ [][NextHub]_vars

SpecBc == Init /\ [][NextBc]_vars

SpecMux == Init /\ [][NextMux]_vars

SpecLog == Init /\ [][NextLog]_vars

SpecSnap == Init /\ [][NextSnap]_vars

SpecReq == Init /\ [][NextReq]_vars

SpecRd == Init /\ [][NextRd]_vars

SpecCls == Init /\ [][NextCls]_vars

SpecIc == Init /\ [][NextIc]_vars

SpecLr == Init /\ [][NextLr]_vars

SpecUri == Init /\ [][NextUri]_vars

SpecNdef == Init /\ [][NextNdef]_vars

SpecCp == Init /\ [][NextCp]_vars

\* ===========================================================================
\* Properties
\* ===========================================================================
Last(q) == q[Len(q)]

\* A tick of reader r completed in this step.
Ticked(r) == Len(hist'[r]) = Len(hist[r]) + 1

CardEv(u) == <<"card", u>>
RemovedEv == <<"removed">>

\* C1: within one subscription, a tick whose identify returns a card with UID u
\* emits a card event iff u differs from the stored last UID, and stores u; so
\* the first tick of a subscription that sees a card emits, and a tick that
\* returns the same UID as the tick before it emits nothing.
C1_CardEdge ==
    [][\A r \in Readers :
         (Ticked(r) /\ Last(hist'[r]) \in UIDs) =>
            LET u == Last(hist'[r]) IN
            /\ u # MapGet(lastUIDs, r) => evs'[r] = Append(evs[r], CardEv(u))
            /\ u = MapGet(lastUIDs, r) => evs'[r] = evs[r]
            /\ lastUIDs'[r] = u
            /\ hist[r] = <<>> => evs'[r] = <<CardEv(u)>>
            /\ (hist[r] # <<>> /\ Last(hist[r]) = u) => evs'[r] = evs[r]
      ]_vars

\* C1 witness: two consecutive ticks returned A and exactly one card event exists.
C1_Witness ==
    \E r \in Readers : hist[r] = <<"A", "A">> /\ evs[r] = <<CardEv("A")>>

\* C2: within one subscription, a tick whose identify returns no-card emits a
\* removed event iff the stored last UID was non-empty, and clears the stored
\* UID; the outcomes A, A, no-card, A give exactly card, removed, card.
C2_RemovedEdge ==
    [][\A r \in Readers :
         /\ (Ticked(r) /\ Last(hist'[r]) = NoCard) =>
               /\ MapGet(lastUIDs, r) # "" => evs'[r] = Append(evs[r], RemovedEv)
               /\ MapGet(lastUIDs, r) = "" => evs'[r] = evs[r]
               /\ lastUIDs'[r] = ""
               /\ hist[r] = <<>> => evs'[r] = <<>>
         /\ hist'[r] = <<"A", "A", NoCard, "A">> =>
               evs'[r] = <<CardEv("A"), RemovedEv, CardEv("A")>>
      ]_vars

\* C2 witness: the outcomes A, A, no-card, A were seen and produced card, removed, card.
C2_Witness ==
    \E r \in Readers : /\ hist[r] = <<"A", "A", NoCard, "A">>
                       /\ evs[r] = <<CardEv("A"), RemovedEv, CardEv("A")>>

MidFlight(c) == pc[c] \in {"write", "read", "shot", "shotrun"}

LiveChildren == Cardinality({k \in ChildIds : alive[k]}) + Cardinality(shotAlive)

\* C4: commands on one executor are strictly serialized: a second command is not
\* written to the child's stdin while another call is still collecting its
\* response, and no call accumulates a line produced for another call's command.
C4_Serialized ==
    /\ Cardinality({c \in Procs : pc[c] = "read"}) <= 1
    /\ \A c \in Procs : output[c] \cap (Procs \ {c}) = {}

\* C5: at all times at most one child subprocess spawned by the executor
\* (persistent or one-shot) is alive.
C5_AtMostOneChild == LiveChildren <= 1

\* C6: busy is true iff some Execute/ExecuteFast call has begun its command and
\* not yet returned, one-shot fallback included.
C6_BusyIffMidFlight == IsBusy <=> (\E c \in Procs : MidFlight(c))

\* C7: when the start of the child, the write of the command or the read of the
\* response fails during Execute/ExecuteFast, the current child is killed and
\* the executor is no longer running, and the call runs the command exactly once
\* in one-shot mode and returns from that run (as long as the agent process
\* itself has not panicked).
C7_Fallback ==
    [][\A c \in Procs : crashed' \/
         /\ (pc[c] \in {"idle", "ready", "write", "read"} /\ pc'[c] = "shot") =>
               /\ ~p'.running
               /\ p'.cmd # None => ~alive'[p'.cmd]
               /\ shots'[c] = 0
         /\ (pc[c] \in {"ready", "write"} /\ pc'[c] # pc[c]) =>
               pc'[c] \in {"write", "read", "shot"}
         /\ (pc[c] = "shot" /\ pc'[c] # "shot") =>
               (pc'[c] = "shotrun" /\ shots'[c] = 1 /\ c \in shotAlive')
         /\ (pc[c] = "shotrun" /\ pc'[c] # "shotrun") =>
               (pc'[c] = "done" /\ shots[c] = 1 /\ c \notin shotAlive')
      ]_vars

\* C7 witness: a call whose command failed mid-flight is running its one-shot
\* retry, the executor is not running and its child is gone.
C7_Witness ==
    \E c \in Procs : /\ pc[c] = "shotrun" /\ deferred[c] /\ shots[c] = 1
                     /\ ~p.running /\ p.cmd # None /\ ~alive[p.cmd]

\* C8: idle expiry never stops the child while a command is in flight on it
\* (written to, or about to be written to, its stdin and not yet collected).
C8_IdleNeverStopsMidCommand ==
    timerAct = "stop" => ~(\E c \in Procs : pc[c] \in {"write", "read"})

Full(s) == Len(sendq[s]) = QueueCap

\* The payload offered to the outbound queue of s in this step (Nothing if none).
Nothing == -1

Offered(s) ==
    IF hubOp'[1] = "broadcast" /\ s \in clients THEN hubOp'[2]
    ELSE IF hubOp' = <<"emit", s>> THEN EventMsg
    ELSE Nothing

\* C12: when something is enqueued for a session whose outbound queue is full,
\* that session is severed (out of the client set, queue closed, nothing
\* appended) and the producer's step completes all the same: a pending
\* broadcast can always be processed, and the registered sessions with room
\* still get the payload.
C12_OverflowSevers ==
    /\ [][\A s \in Sessions :
            /\ (Offered(s) # Nothing /\ Full(s)) =>
                  (s \notin clients' /\ ~sendOpen'[s] /\ sendq'[s] = sendq[s])
            /\ (hubOp'[1] = "broadcast" /\ s \in clients /\ ~Full(s)) =>
                  (s \in clients' /\ sendq'[s] = Append(sendq[s], hubOp'[2]))
         ]_vars
    /\ [](bcastCh # <<>> => ENABLED HubBroadcast)

\* C12 witness: a broadcast has just found one registered session with a full
\* queue and one with room: the first is severed, the second got the payload.
C12_Witness ==
    /\ hubOp[1] = "broadcast"
    /\ \E s, t \in Sessions :
          /\ life[s] = "live" /\ s \notin clients /\ ~sendOpen[s] /\ Len(sendq[s]) = QueueCap
          /\ t \in clients /\ sendq[t] # <<>> /\ Last(sendq[t]) = hubOp[2]

\* C13 as stated: a broadcast payload is enqueued on the outbound queue of every
\* session registered at that time, and a session is in the client set exactly
\* from its register to its unregister.
C13_EveryRegisteredSession ==
    [][\A s \in Sessions :
         /\ (hubOp'[1] = "broadcast" /\ s \in clients) =>
               sendq'[s] = Append(sendq[s], hubOp'[2])
         /\ (s \in clients /\ s \notin clients') => hubOp' = <<"unregister", s>>
      ]_vars

\* C13 (amended): a broadcast payload is appended unmodified, exactly once, to
\* the outbound queue of every registered session whose queue has room, and to
\* no other queue; nothing else puts a broadcast payload on a queue; a session
\* enters the client set exactly when its register is processed and leaves it
\* when its unregister is processed or when it is severed on overflow.
C13_FanOut ==
    [][\A s \in Sessions :
         /\ (hubOp'[1] = "broadcast" /\ s \in clients /\ ~Full(s)) =>
               sendq'[s] = Append(sendq[s], Head(bcastCh))
         /\ (hubOp'[1] = "broadcast" /\ s \notin clients) => sendq'[s] = sendq[s]
         /\ Len(sendq'[s]) > Len(sendq[s]) =>
               (sendq'[s] = Append(sendq[s], Offered(s)) /\ Offered(s) # Nothing)
         /\ hubOp' = <<"register", s>> => s \in clients'
         /\ (s \in clients' /\ s \notin clients) => hubOp' = <<"register", s>>
         /\ hubOp' = <<"unregister", s>> => s \notin clients'
         /\ (s \in clients /\ s \notin clients') =>
               (hubOp' = <<"unregister", s>> \/ (Offered(s) # Nothing /\ Full(s)))
      ]_vars

\* C13 witness: a payload has just been fanned out to two registered sessions:
\* it is the newest entry of both outbound queues.
C13_Witness ==
    /\ hubOp[1] = "broadcast"
    /\ \E s, t \in Sessions :
          /\ s # t /\ {s, t} \subseteq clients
          /\ Last(sendq[s]) = hubOp[2] /\ Last(sendq[t]) = hubOp[2]

\* ---------------------------------------------------------------------------
\* The executor's child: monitor and lazy start
\* ---------------------------------------------------------------------------
\* The monitor goroutine of child k finishes in this step.
MonitorDone(k) == k \in monitors /\ k \notin monitors' /\ ~crashed'

\* C17: when the monitor sees a child exit while running is true and no
\* shutdown of that child was requested, it marks the executor stopped and
\* raises the unexpected-exit warning; when the exit follows a requested
\* shutdown (Stop or idle stop), it changes nothing and raises no warning.
C17_MonitorTellsExitsApart ==
    [][\A k \in ChildIds :
         MonitorDone(k) =>
            /\ (k \notin requested /\ p.running) =>
                  (~p'.running /\ monitorWarns(St(p, alive)))
            /\ k \in requested =>
                  (p' = p /\ ~monitorWarns(St(p, alive)))
      ]_vars

\* Call c enters Execute / Start in this step.
Enters(c) == pc[c] = "idle" /\ pc'[c] # "idle" /\ ~crashed'

\* C18: no child exists before the first call; a call that finds the executor
\* not running (never started, or torn down by idle stop, kill or the monitor)
\* spawns a new persistent child before anything is written, or, when the
\* spawn itself fails, goes to the one-shot fallback; a command is written
\* only to the stdin of a live persistent child.
C18_LazySpawn ==
    [][/\ calls = 0 => (~p.running /\ p.cmd = None /\ \A k \in ChildIds : ~alive[k])
       /\ \A c \in Procs :
            /\ (Enters(c) /\ ~p.running) =>
                  \/ /\ pc'[c] \in {"ready", "sready"}
                     /\ ~alive[NewId(c)] /\ alive'[NewId(c)]
                     /\ p'.running /\ p'.cmd = NewId(c) /\ p'.stdin = NewId(c)
                     /\ childIn'[NewId(c)] = <<RDY>>
                  \/ /\ pc'[c] \in {"shot", "done"}
                     /\ alive' = alive /\ ~p'.running /\ childIn' = childIn
            /\ (pc[c] = "write" /\ pc'[c] = "read") =>
                  /\ p.stdin \in ChildIds /\ alive[p.stdin]
                  /\ childIn'[p.stdin] = Append(childIn[p.stdin], c)
       /\ \A k \in ChildIds :
            Len(childIn'[k]) > Len(childIn[k]) =>
               \/ childIn'[k] = <<RDY>> /\ ~alive[k]
               \/ \E c \in Procs : pc[c] = "write" /\ pc'[c] = "read" /\ p.stdin = k
      ]_vars

\* C18 witness: the first child was started, torn down and is gone; the second
\* call has spawned a child of its own and has written its command to it.
C18_Witness ==
    /\ pc[1] = "done" /\ ~alive[1] /\ 1 \in monitors
    /\ pc[2] = "read" /\ alive[2] /\ p.cmd = 2 /\ p.stdin = 2 /\ p.running

\* ---------------------------------------------------------------------------
\* The demux listener
\* ---------------------------------------------------------------------------
\* C14: a failing peek closes the connection once and makes Accept return no
\* connection and an error whose Temporary() is true; a dispatched connection
\* is not closed or changed by the listener afterwards (only its consumer reads
\* and closes it); a failed connection is not used again; no connection is ever
\* closed twice.
C14_PeekFailureIsTemporary ==
    [][\A c \in ConnIds :
         /\ (Conn(c).st = "peeking" /\ Conn(c)'.st = "failed") =>
               /\ Conn(c)'.lcloses = 1 /\ Conn(c)'.hcloses = 0
               /\ lastRet'.id = c /\ lastRet'.conn = "none"
               /\ lastRet'.error.err \in PeekErrs
               /\ lastRet'.error.Temporary
         /\ Conn(c).st = "handed" =>
               /\ Conn(c)'.st = "handed"
               /\ Conn(c)'.lcloses = 0
               /\ Conn(c)'.deadline = Conn(c).deadline
               /\ lastRet' # lastRet => lastRet'.id # c
         /\ Conn(c).st = "failed" => Conn(c)' = Conn(c)
         /\ Conn(c)'.lcloses + Conn(c)'.hcloses <= 1
      ]_vars

\* C14 witness: one connection failed its peek and was closed by the listener,
\* which returned a temporary error for it; another was dispatched and has been
\* closed by its consumer.
C14_Witness ==
    \E c, d \in ConnIds :
       /\ Conn(c).st = "failed" /\ Conn(c).lcloses = 1
       /\ lastRet.id = c /\ lastRet.error.Temporary
       /\ Conn(d).st = "handed" /\ Conn(d).hcloses = 1 /\ Conn(d).lcloses = 0

\* C15: a connection whose first byte was read is returned as a TLS server
\* connection if and only if the first byte its client sent is 0x16, otherwise
\* as plaintext, and its read deadline has been cleared.
C15_DispatchOnFirstByte ==
    \A c \in ConnIds :
       Conn(c).st = "handed" =>
          /\ Conn(c).kind = (IF Conn(c).stream[1] = TLSHandshake THEN "tls" ELSE "plain")
          /\ ~Conn(c).deadline
          /\ lastRet.id = c => (lastRet.conn = Conn(c).kind /\ lastRet.error = NilErr)

\* C15 witness: one connection dispatched as TLS and one as plaintext.
C15_Witness ==
    \E c, d \in ConnIds :
       /\ Conn(c).st = "handed" /\ Conn(c).kind = "tls"
       /\ Conn(d).st = "handed" /\ Conn(d).kind = "plain" /\ lastRet.id = d

\* C16: what the Reads on a dispatched connection have delivered so far is the
\* beginning of the byte stream the client sent, and all of it once the end of
\* the stream has been reported.
C16_PeekDoesNotConsume ==
    \A c \in ConnIds :
       Conn(c).st = "handed" =>
          /\ Conn(c).got = SubSeq(Conn(c).stream, 1, Len(Conn(c).got))
          /\ Conn(c).eof => Conn(c).got = Conn(c).stream

\* ---------------------------------------------------------------------------
\* The log ring
\* ---------------------------------------------------------------------------
\* The last n elements of sequence q, newest (last) first.
NewestFirst(q, n) == [i \in 1..n |-> q[Len(q) + 1 - i]]

Min(a, b) == IF a < b THEN a ELSE b

\* C19: the unfiltered, unlimited snapshot holds exactly min(k, N) entries, k
\* the number of entries stored since the last Clear and N the capacity: the
\* most recent ones, newest first.
C19_SnapshotIsNewestFirst ==
    lg.maxSize > 0 =>
       GetEntries(lg, 0, NoLevel, NoCategory)
          = NewestFirst(accepted, Min(Len(accepted), lg.maxSize))

\* C19 witness: more entries were stored since the last Clear or discard than
\* the ring holds, and the snapshot is full.
C19_Witness ==
    /\ lg.maxSize > 0 /\ Len(accepted) > lg.maxSize
    /\ accepted[1].Message > 1
    /\ Len(GetEntries(lg, 0, NoLevel, NoCategory)) = lg.maxSize

\* C20: a Log call with a level below the minimum level leaves the logger as it
\* is: entries, head and count.
C20_BelowMinLevelDiscarded ==
    [][(lastLog' # NoLevel /\ lastLog' < lg.minLevel) =>
          (lg'.entries = lg.entries /\ lg'.head = lg.head /\ lg'.count = lg.count)
      ]_vars

\* C20 witness: the last Log call was below the minimum level and the ring
\* already held entries.
C20_Witness ==
    /\ lastLog # NoLevel /\ lastLog < lg.minLevel
    /\ lg.count > 0 /\ lg.head # lg.count

\* What the ring holds, newest first, told from the entries stored since the
\* last Clear.
Stored == NewestFirst(accepted, Min(Len(accepted), lg.maxSize))

\* Entry e passes the filters.
Matches(e, minLevel, category) ==
    /\ minLevel # NoLevel => e.Level >= minLevel
    /\ category # NoCategory => e.Category = category

\* The snapshot GetEntries is to return.
Wanted(limit, minLevel, category) ==
    LET pass(e) == Matches(e, minLevel, category)
        all     == SelectSeq(Stored, pass)
    IN IF limit > 0 THEN SubSeq(all, 1, Min(limit, Len(all))) ELSE all

\* C21: for every limit, minimum level and category (given or not),
\* GetEntries returns the stored entries that pass the filters, newest first,
\* cut to the first `limit` of them when limit > 0; and a call of GetEntries
\* leaves the logger as it is.
C21_FilteredSnapshot ==
    /\ [](lg.maxSize > 0 =>
            \A limit \in Limits, minLevel \in Levels \cup {NoLevel},
               category \in Categories \cup {NoCategory} :
                 GetEntries(lg, limit, minLevel, category) = Wanted(limit, minLevel, category))
    /\ [][snap'.taken => (lg' = lg /\ accepted' = accepted)]_vars

\* C21 witness: a snapshot was taken with a level filter and a category filter
\* that reject a stored entry, and with a limit that cut off a match.
C21_Witness ==
    /\ snap.taken
    /\ \E limit \in Limits \ {0}, minLevel \in Levels, category \in Categories :
          /\ snap.result = Wanted(limit, minLevel, category)
          /\ Len(snap.result) = limit
          /\ Len(Wanted(0, minLevel, category)) > limit
          /\ Len(Stored) > Len(Wanted(0, minLevel, category))

FirstFailing(m, n) ==
    IF ~m.parsed THEN "invalid payload"
    ELSE IF ~inRange(m.payload, n) THEN "reader index out of range"
    ELSE valueError(m.type, m.payload)

\* C24: for every request that names a reader the checks run in the order
\* payload schema, reader index against the current enumeration, value
\* validation, and the error reply is that of the first check that fails.
C24_ChecksInOrder ==
    [][(wsOut' # wsOut /\ wsLast'.msg.type \in ReaderTypes
          /\ FirstFailing(wsLast'.msg, wsReaders) # "")
        => /\ wsLast'.reply.type = "error"
           /\ wsLast'.reply.error = FirstFailing(wsLast'.msg, wsReaders)]_vars

\* A lock_card request without confirmation that names a reader the
\* enumeration does not have was answered with the confirm error.
C24_LockConfirmFirst ==
    /\ wsLast.msg.type = "lock_card"
    /\ wsLast.msg.parsed
    /\ ~wsLast.msg.payload.confirm
    /\ wsLast.msg.payload.readerIndex >= wsReaders
    /\ wsLast.reply.error = ErrConfirm

\* C25: every request handled gets exactly one reply, enqueued on the queue of
\* the session that sent it and on no other, carrying the request's id; a
\* request of an unsupported type gets an error reply "unknown message type".
C25_ReplyEchoesId ==
    /\ [](wsLast.sess \in Peers =>
             /\ wsOut[wsLast.sess] # <<>>
             /\ wsLast.reply.id = wsLast.msg.id
             /\ (wsLast.msg.type \notin ReaderTypes \cup PlainTypes =>
                    /\ wsLast.reply.type = "error"
                    /\ wsLast.reply.error = "unknown message type"))
    /\ [][\A s \in Peers :
             wsOut'[s] # wsOut[s] =>
                /\ wsLast'.sess = s
                /\ wsOut'[s] = Append(wsOut[s], wsLast'.msg.id)
                /\ \A o \in Peers \ {s} : wsOut'[o] = wsOut[o]]_vars

\* C25 witness: two sessions each got their own reply, the ids differ, and the
\* last request was of an unsupported type and was answered with the error.
C25_Witness ==
    /\ wsOut["p1"] = <<"a">>
    /\ wsOut["p2"] = <<"b">>
    /\ wsLast.sess = "p2"
    /\ wsLast.msg.type = UnknownType
    /\ wsLast.reply = [type |-> "error", id |-> "b", error |-> "unknown message type"]

Collecting == rdPc \in {"top", "wait"}

\* No command echo is in the buffer or in the returned output.
NoEcho ==
    /\ \A i \in 1..Len(rdBuf) : ~promptRegex(rdBuf[i])
    /\ \A i \in 1..Len(rdRet.output) : ~promptRegex(rdRet.output[i])

HasAny(out, patterns) == \E pt \in patterns : Contains(ToLower(out), pt)

\* C27: output with a no-card token yields the no-card error, output with an
\* auth token (and no no-card token) yields auth-failed, and for every write
\* operation output with none of the success tokens yields a write failure.
C27_OutputClassified ==
    clsOp \in Ops =>
       /\ HasAny(clsOut, {<<"no", "tag", "found">>, <<"can't", "select", "card">>,
                          <<"tag", "lost">>}) => clsErr = "ErrNoCard"
       /\ (HasAny(clsOut, {<<"auth", "error">>, <<"wrong", "key">>}) /\ clsErr # "ErrNoCard")
             => clsErr = "ErrAuthFailed"
       /\ (clsOp \in WriteOps
             /\ ~HasAny(clsOut, {<<"ok">>, <<"successful">>, <<"done">>}))
             => clsErr # "nil"

\* WriteISO15693Block returned success on output without any success token.
C27_SilentWriteAccepted ==
    /\ clsOp = "WriteISO15693Block"
    /\ clsOut = <<"[=]", "wrote", "block">>
    /\ clsErr = "nil"

\* C28: IsConnected returns true without sending a command whenever it finds
\* the executor busy; it sends the probe command only when it found the
\* executor not busy (and, for the persistent executor, not running), and then
\* the probe's success is the result.
C28_BusyMeansConnected ==
    /\ [](icSent >= 1 => (~icSaw.busy /\ (icKind = "PersistentClient" => ~icSaw.running)))
    /\ []((icPc = "done" /\ icSaw.busy) => (icRet /\ icSent = 0))
    /\ []((icPc = "done" /\ icSent = 0) => (icRet /\ icProbe = "none"))
    /\ []((icPc = "done" /\ ~icSaw.busy /\ ~(icKind = "PersistentClient" /\ icSaw.running))
            => (icSent = 1 /\ icProbe # "none" /\ icRet = (icProbe = "ok")))

\* C28 witness: a first call probed an idle persistent executor that is not
\* running, and a second call found it busy and returned true without sending.
C28_Witness ==
    /\ icKind = "PersistentClient"
    /\ icCalls = 2
    /\ icPc = "done"
    /\ icSaw.busy
    /\ icRet
    /\ icSent = 0

\* The names of the list that are no secondary (SAM) slot, in list order.
PiccNames(names) == SelectSeq(names, LAMBDA n : detectReaderType(n) # "sam")

\* C29: ListReaders never returns nil; it returns the empty list when the
\* context or the listing fails; otherwise the readers returned are exactly the
\* names that are no secondary slot, in PC/SC list order, with the IDs
\* reader-0, reader-1, ... in that order.
C29_ContiguousReaderIds ==
    lrCall.called =>
       /\ ~lrRet.isNil
       /\ (~lrCall.ctxOk \/ ~lrCall.listOk) => lrRet.items = <<>>
       /\ (lrCall.ctxOk /\ lrCall.listOk) =>
             /\ Len(lrRet.items) = Len(PiccNames(lrCall.names))
             /\ \A i \in 1..Len(lrRet.items) :
                   /\ lrRet.items[i].Name = PiccNames(lrCall.names)[i]
                   /\ lrRet.items[i].ID = <<"reader-", i - 1>>

\* C29 witness: PC/SC listed a SAM slot and then a contactless reader; the
\* contactless reader alone came back, as reader-0.
C29_Witness ==
    /\ lrCall.called /\ lrCall.ctxOk /\ lrCall.listOk
    /\ Len(lrCall.names) = 2
    /\ detectReaderType(lrCall.names[1]) = "sam"
    /\ detectReaderType(lrCall.names[2]) = "picc"
    /\ Len(lrRet.items) = 1
    /\ lrRet.items[1].ID = <<"reader-", 0>>
    /\ lrRet.items[1].Name = lrCall.names[2]

\* C30: for any URI, the prefix of the code the encoder chose followed by the
\* remainder is the URI again; the encoder emits no code above 0x23; the
\* decoder gives every code outside 0x01..0x23 the empty prefix.
C30_PrefixSplitRoundTrip ==
    /\ uriOp.kind = "split" =>
          /\ getURIPrefix(uriOp.code) \o uriOp.rest = uriOp.uri
          /\ uriOp.code \in 0..35
    /\ (uriOp.kind = "decode" /\ uriOp.code \notin 1..35) => uriOp.uri = uriOp.rest

\* C30 witness: "https://www.e" was split into code 0x04 and "www.e".
C30_Witness ==
    /\ uriOp.kind = "split"
    /\ uriOp.uri = <<"h", "t", "t", "p", "s", ":", "/", "/", "w", "w", "w", ".", "e">>
    /\ uriOp.code = 4
    /\ uriOp.rest = <<"w", "w", "w", ".", "e">>

\* C31: the code the encoder chooses is that of the longest prefix of the table
\* the URI starts with (code 0 only when the URI starts with none of them).
C31_LongestPrefixChosen ==
    uriOp.kind = "split" =>
       \A c \in 1..Len(uriPrefixTable) :
          HasPrefix(uriOp.uri, uriPrefixTable[c]) =>
             /\ uriOp.code # 0
             /\ Len(uriPrefixTable[c]) <= Len(getURIPrefix(uriOp.code))

\* The body of a TLV: the bytes between its length field and its terminator.
tlvBody(bytes) ==
    IF bytes[2] = 255 THEN SubSeq(bytes, 5, Len(bytes) - 1)
    ELSE SubSeq(bytes, 3, Len(bytes) - 1)

\* The records read back from encoded bytes: the flags of each header byte and
\* the payload length its length field gives; reading stops with a record of
\* length -1 where the bytes end inside a record.
Truncated == [mb |-> FALSE, me |-> FALSE, sr |-> FALSE, plen |-> -1, payload |-> <<>>]

RECURSIVE readRecords(_, _)
readRecords(body, pos) ==
    IF pos > Len(body) THEN <<>>
    ELSE LET h   == body[pos]
             sr  == (h \div 16) % 2 = 1
             hdr == IF sr THEN 3 ELSE 6
         IN  IF pos + hdr - 1 > Len(body) THEN <<Truncated>>
             ELSE LET tl == body[pos + 1]
                      pl == IF sr THEN body[pos + 2]
                            ELSE body[pos + 2] * 16777216 + body[pos + 3] * 65536
                                   + body[pos + 4] * 256 + body[pos + 5]
                  IN  IF pos + hdr + tl + pl - 1 > Len(body) THEN <<Truncated>>
                      ELSE <<[mb |-> (h \div 128) % 2 = 1, me |-> (h \div 64) % 2 = 1,
                              sr |-> sr, plen |-> pl,
                              payload |-> SubSeq(body, pos + hdr + tl,
                                                 pos + hdr + tl + pl - 1)]>>
                             \o readRecords(body, pos + hdr + tl + pl)

\* C32: in every encoded message of n >= 1 records MB is set on exactly the
\* first record and ME on exactly the last, SR is set exactly when the payload
\* is shorter than 256 bytes, and the length field (one byte when SR, four bytes
\* big-endian otherwise) gives the payload's length.
C32_RecordFlags ==
    ndefRecs # <<>> =>
       LET back == readRecords(tlvBody(ndefBytes), 1)
       IN  /\ Len(back) = Len(ndefRecs)
           /\ \A i \in 1..Len(back) :
                 /\ back[i].mb <=> (i = 1)
                 /\ back[i].me <=> (i = Len(ndefRecs))
                 /\ back[i].sr <=> (Len(ndefRecs[i].payload) < 256)
                 /\ back[i].plen = Len(ndefRecs[i].payload)
                 /\ back[i].payload = ndefRecs[i].payload

\* C32 witness: a message of two records, the first with a payload of 300
\* bytes (long form, MB only), the second with 255 bytes (short form, ME only).
C32_Witness ==
    /\ Len(ndefRecs) = 2
    /\ Len(ndefRecs[1].payload) = 300
    /\ Len(ndefRecs[2].payload) = 255
    /\ tlvBody(ndefBytes)[1] = 128 + ndefRecs[1].tnf
    /\ SubSeq(tlvBody(ndefBytes), 3, 6) = <<0, 0, 1, 44>>

\* C33: the response Execute returns for a command holds only lines the child
\* printed after that command was written to stdin.
C33_OnlyOwnLines == (rdPc = "done" /\ rdExec = "return") => ~rdStale

ReadyPending ==
    /\ p.stdin \in ChildIds
    /\ \/ \E i \in 1..Len(childIn[p.stdin]) : childIn[p.stdin][i] = RDY
       \/ \E i \in 1..Len(lineBuf) : lineBuf[i] = RDY

\* C34: no command reaches a child whose ready line has not been observed by
\* the start that waits for it, and no call collecting a response takes the
\* ready line.
C34_NoCommandBeforeReady ==
    /\ [][\A c \in Procs : (pc[c] = "write" /\ pc'[c] = "read") => ~ReadyPending]_vars
    /\ [](\A c \in Procs : RDY \notin output[c])

\* C35: when the process wait of an earlier child returns while the executor
\* runs a later child, the executor stays running and no unexpected-exit
\* warning is raised.
C35_MonitorOfEarlierChild ==
    [][\A k \in ChildIds :
          (k \in monitors /\ k \notin monitors' /\ ~crashed'
             /\ p.running /\ p.cmd \in ChildIds /\ p.cmd # k) =>
                (p'.running /\ ~monitorWarns(St(p, alive)))]_vars

\* C36: the line-reader task of a child closes the channel made for that child,
\* once, while the executor's channel field still holds it; and no channel
\* operation panics (close of nil, close of a closed channel, send on a closed
\* channel): the only panic left is a write through a nil stdin.
C36_LinesClosedOnceByOwner ==
    [][/\ \A k \in readers :
             (~alive[k] /\ readers' = readers \ {k} /\ ~crashed') =>
                (p.lines = k /\ ~lineClosed /\ lineClosed')
       /\ (crashed' /\ ~crashed) => \E c \in Procs : pc[c] = "write" /\ p.stdin = None]_vars

\* The card and removed events of a sequence, in order.
Presence(e) == SelectSeq(e, LAMBDA x : x[1] \in {"card", "removed"})

\* C38: in the events of one subscription the first card-or-removed event is
\* never `removed`, a `removed` is never followed by another `removed` without a
\* `card` between them, and a `card` directly followed by a `card` carries a
\* different UID.
C38_RemovedOnlyAfterCard ==
    \A r \in Readers :
       LET e == Presence(evs[r])
       IN  /\ e # <<>> => e[1][1] = "card"
           /\ \A i \in 1..(Len(e) - 1) :
                 /\ ~(e[i][1] = "removed" /\ e[i + 1][1] = "removed")
                 /\ (e[i][1] = "card" /\ e[i + 1][1] = "card") => e[i][2] # e[i + 1][2]

\* C38 witness: the ticks returned A, B, no-card, no-card: two card events with
\* different UIDs, one removed event, and nothing for the second no-card.
C38_Witness ==
    \E r \in Readers :
       /\ hist[r] = <<"A", "B", NoCard, NoCard>>
       /\ evs[r] = <<<<"card", "A">>, <<"card", "B">>, <<"removed">>>>

\* C39: on a logger of capacity N, after any Log, Clear and SetMinLevel calls,
\* 0 <= count <= N, 0 <= head < N, and count < N implies head = count; a Clear
\* leaves count and head at 0, the snapshot empty and the stats at zero entries,
\* with capacity and minimum level as they were.
C39_RingBounds ==
    /\ [](lg.maxSize > 0 =>
             /\ 0 <= lg.count /\ lg.count <= lg.maxSize
             /\ 0 <= lg.head /\ lg.head < lg.maxSize
             /\ (lg.count < lg.maxSize => lg.head = lg.count))
    /\ [][(accepted # <<>> /\ accepted' = <<>>) =>
             /\ lg'.count = 0 /\ lg'.head = 0
             /\ GetEntries(lg', 0, NoLevel, NoCategory) = <<>>
             /\ Stats(lg') = [TotalEntries |-> 0, MaxEntries |-> lg.maxSize,
                              MinLevel |-> lg.minLevel]]_vars

\* C39 witness: a ring of capacity 2 took three entries, so its write position
\* had wrapped to 1, and was cleared: count and head are 0 and the old entries
\* are still in the slots.
C39_Witness ==
    /\ lg.maxSize = 2 /\ logCalls = 3
    /\ lg.count = 0 /\ lg.head = 0
    /\ accepted = <<>>
    /\ lg.entries[0].Message = 3
    /\ lg.entries[1].Message = 2

\* C40: isRunning is true exactly from a start() to the next stop(); while it
\* is, exactly one poll timer is set, whatever number of start() calls were
\* made, and readCard has been called once for the start plus once per
\* interval elapsed since; while it is not, no timer is set.
C40_StartIdempotent ==
    /\ cp.running = cpWanted
    /\ cp.timers = (IF cpWanted THEN 1 ELSE 0)
    /\ cpWanted => cp.reads = cpSince.reads + 1 + cpSince.intervals

\* C40 witness: start() was called twice in a row and one interval passed: one
\* timer, two reads.
C40_Witness ==
    /\ cpCalls = 3
    /\ cp = [running |-> TRUE, timers |-> 1, reads |-> 2]
    /\ cpSince = [reads |-> 0, intervals |-> 1]

====
